---- MODULE Spec2Model ----
(***************************************************************************)
(* State-machine model of the attention visualizer                         *)
(* (src/attention_visualizer.py: the script that show_attention_graph      *)
(* emits) and of its event handlers.                                       *)
(*                                                                         *)
(* One visualization = one instance of the variables below.  The dataset   *)
(* (L, B, H, N, ids, fullNames, and attnData and boundsData, which are     *)
(* looked up in DataSets under the name in dataset) is fixed by Init and   *)
(* never changes; each specification starts from datasets of the size its  *)
(* properties need.  Every event handler is one action.                    *)
(*                                                                         *)
(* Numbers.  The script computes with IEEE-754 doubles.  The model keeps   *)
(* the rounding but at a reduced precision: a float is a non-negative      *)
(* integer count of units with at most FloatBits significant bits, and     *)
(* every arithmetic result is rounded to the nearest such number, ties to  *)
(* even (Fl).  Attention values are integers times DataUnit; the slider    *)
(* fraction sv/1000 is counted in units of 1/One.                          *)
(*                                                                         *)
(* Scene graph.  Arrays of the script that hold element references         *)
(* (hlRects, segments, pinnedRect) are kept apart from what is drawn       *)
(* (hlDrawn, segDrawn, pinBandGroup, threshLines): element.remove() takes  *)
(* one element out of what is drawn, appendChild puts one in.  An element  *)
(* is described by the attributes the script sets on it.                   *)
(*                                                                         *)
(* Python side.  The entrypoints of src/export_attention.py and             *)
(* show_attention_graph are functions of their arguments: call holds the   *)
(* last call, result what it raised and the files it wrote or the view it  *)
(* displayed, document the views displayed so far in one hosting document. *)
(* numpy arrays are a shape and the row-major sequence of their elements;  *)
(* a file is the sequence of its bytes.                                    *)
(***************************************************************************)
EXTENDS Integers, Sequences, FiniteSets, Bags, TLC

\* ---------------------------------------------------------------- bounds
\* Dataset of the chain specification (Spec).
ChainL == 2
ChainB == 2
ChainH == 2
ChainN == 2
\* Datasets of the threshold specifications: ThreshL layers, ThreshB batches,
\* ThreshH heads; ThreshN * ThreshN > MAX_TL nodes in SpecCap, SelN nodes in
\* SpecThresh.
ThreshL == 1
ThreshB == 2
ThreshH == 2
ThreshN == 25
SelN == 2
\* Dataset of the search specification (SpecSearch): SearchN > MaxMatches
\* entities; at most MaxTimers blur timeouts are pending at a time.
SearchN == 13
MaxTimers == 1
\* Significant bits of the model's floating-point numbers.
FloatBits == 4
\* Arguments of the Python entrypoints: up to PyL layers, PyB batches, PyH
\* heads, PyN entities; chunk sizes up to MaxChunk.
PyL == 2
PyB == 2
PyH == 2
PyN == 2
MaxChunk == 3

\* Hosting document: up to MaxViews displayed views, instance ids out of
\* UidCount values of random.randint.
MaxViews == 3
UidCount == 2

\* ------------------------------------------------------ program constants
\* random.randint(100000, 999999): the lowest instance id.
UidBase == 100000

MAX_TL == 600
DefaultThresh == 950
SliderMax == 1000
MaxMatches == 12

VARIABLES
  \* the dataset: constants of the emitted script
  L, B, H, N, ids, fullNames, dataset,
  \* controls
  batch, head, thresh, bval, hval, tval,
  \* name-bar bound fills and threshold edges
  redRects, threshLines,
  \* chain
  chain, hlRects, segments, hlDrawn, segDrawn,
  \* pinned band
  pinnedIdx, pinnedRect, pinDrawn,
  \* search bar
  searchValue, clearShown, dropShown, items, focused, timers,
  \* hover band: activeRowIdx, the attributes of rowBand, and the element
  \* under the pointer
  activeRowIdx, rowBand, pointer,
  \* history: the branch the last svg click took
  lastOp,
  \* the Python side: the last call of an entrypoint of the two modules and
  \* what it raised, wrote or displayed; the views displayed in the hosting
  \* document
  call, result, document

hostVars == <<call, result, document>>
dataVars == <<L, B, H, N, ids, fullNames, dataset, hostVars>>
ctlVars == <<batch, head, thresh, bval, hval, tval>>
edgeVars == <<redRects, threshLines>>
chainVars == <<chain, hlRects, segments, hlDrawn, segDrawn>>
pinVars == <<pinnedIdx, pinnedRect, pinDrawn>>
searchVars == <<searchValue, clearShown, dropShown, items, focused, timers>>
hoverVars == <<activeRowIdx, rowBand, pointer>>
vars == <<dataVars, ctlVars, edgeVars, chainVars, pinVars, searchVars, hoverVars,
          lastOp>>

\* ---------------------------------------------------------------- helpers
\* JavaScript arrays are 0-based.
At(s, i) == s[i + 1]

Abs(x) == IF x < 0 THEN -x ELSE x

MinOf(S) == CHOOSE x \in S : \A y \in S : x <= y

MaxOf(S) == -MinOf({-x : x \in S})

\* Op applied to the value of v (v is evaluated once, before Op).
ApplyTo(v, Op(_)) == CHOOSE r \in {Op(x) : x \in {v}} : TRUE

RECURSIVE Pow2(_)
Pow2(e) == IF e = 0 THEN 1 ELSE 2 * Pow2(e - 1)

\* ------------------------------------------------------------ float model
\* a / b rounded to the nearest integer, ties to even (a >= 0, b > 0).
RoundNE(a, b) ==
  LET q == a \div b
      r == a % b
  IN  IF 2 * r < b THEN q
      ELSE IF 2 * r > b THEN q + 1
      ELSE IF q % 2 = 0 THEN q ELSE q + 1

\* The mantissas of the floats are the integers below MantLimit.
MantLimit == Pow2(FloatBits)

\* The spacing of floats around a / b: the least power of two q with
\* a / b < q * 2^FloatBits.
RECURSIVE Quantum(_, _, _)
Quantum(a, b, q) ==
  IF a < b * q * MantLimit THEN q
  ELSE IF a < b * q * MantLimit * 8 THEN Quantum(a, b, 2 * q)
  ELSE Quantum(a, b, 16 * q)

\* The float nearest to a / b.
Fl(a, b) ==
  LET q == Quantum(a, b, 1) IN q * RoundNE(a, b * q)

\* 1.0 in the units of the slider fraction, and the unit of attention values:
\* wide enough that no product of a slider fraction >= 1/32 and a value
\* difference falls below the float spacing.
One == Pow2(FloatBits + 5)

DataUnit == Pow2(FloatBits + 5)

\* --------------------------------------------------------------- datasets
\* Attention tensors attnData[l][b][h][r][c]: signed floats, different for
\* different (l, b, h, r, c) up to the number of float mantissas.
attnGen(nl, nb, nh, nn, seed) ==
  [l \in 0 .. nl - 1 |-> [b \in 0 .. nb - 1 |-> [h \in 0 .. nh - 1 |->
    [r \in 0 .. nn - 1 |-> [c \in 0 .. nn - 1 |->
      DataUnit * (((5 * r + 3 * c + 7 * l + 11 * b + 13 * h + seed) % MantLimit)
                    - 6 * ((r + c + seed) % 3))]]]]]

\* Attention tensors whose magnitudes differ in their exponents: the least
\* magnitude of every matrix is 3 units at cell (0, 0); the greatest, at the
\* last cell, needs the full mantissa one exponent higher when b + h is
\* even, so that the difference of the two is no float.
extGen(nl, nb, nh, nn, seed) ==
  [l \in 0 .. nl - 1 |-> [b \in 0 .. nb - 1 |-> [h \in 0 .. nh - 1 |->
    [r \in 0 .. nn - 1 |-> [c \in 0 .. nn - 1 |->
      DataUnit *
        (IF r = 0 /\ c = 0 THEN (IF b % 2 = 0 THEN 3 ELSE -3)
         ELSE IF r = nn - 1 /\ c = nn - 1
         THEN MantLimit + 6 - 4 * ((b + h) % 2)
         ELSE 4 + ((5 * r + 3 * c + 7 * l + seed) % (MantLimit - 2)))]]]]]

boundsGen(nb, nn) ==
  [b \in 0 .. nb - 1 |-> [i \in 0 .. nn - 1 |->
     (IF (i + b) % 2 = 0 THEN 1 ELSE -1) * ((3 * i + 5 * b) % 7) * DataUnit]]


\* Entity ids and display names (strings are sequences of characters).
plainIds(nn) ==
  LET cs == <<"a", "b", "c", "d">>
  IN  [i \in 0 .. nn - 1 |-> <<"r", cs[1 + (i % 4)]>>]

\* Ids and names of the search datasets.  Of every three entities the first
\* has an id that starts with "a" or "A", the second an id with "a" or "A" in
\* second place, the third an id without it and a name with it.
searchIds(nn) ==
  LET digit == <<"0", "1", "2", "3", "4", "5">>
  IN  [i \in 0 .. nn - 1 |->
         LET j == i \div 3
             d == digit[1 + (j % 6)]
         IN  IF i % 3 = 0 THEN <<IF j % 2 = 0 THEN "a" ELSE "A", "b", d>>
             ELSE IF i % 3 = 1 THEN <<"b", IF j % 2 = 0 THEN "A" ELSE "a", d>>
             ELSE <<"c", "c", d>>]

searchNames(nn) ==
  [i \in 0 .. nn - 1 |->
     LET j == i \div 3
     IN  IF i % 3 = 0 THEN <<"x", "y">>
         ELSE IF i % 3 = 1 THEN <<"y", "a">>
         ELSE <<"C", IF j % 2 = 0 THEN "a" ELSE "A", "b">>]

\* The seeds of the datasets of SpecCap and of SpecThresh.
CapSeeds == 0 .. 12

SelSeeds == 0 .. 2

ExtSeeds == 0 .. 2

\* What show_attention_graph puts into the script for one call.
DataSet(nl, nb, nh, nn, seed, idv, names) ==
  [L |-> nl, B |-> nb, H |-> nh, N |-> nn, ids |-> idv, fullNames |-> names,
   attnData |-> attnGen(nl, nb, nh, nn, seed), boundsData |-> boundsGen(nb, nn)]

\* The datasets of the specifications, by name.
DataSets ==
  [name \in ({"chain", "search"} \X {0}) \cup ({"cap"} \X CapSeeds)
            \cup ({"sel"} \X SelSeeds) \cup ({"ext"} \X ExtSeeds) |->
     CASE name[1] = "chain" ->
            DataSet(ChainL, ChainB, ChainH, ChainN, name[2],
                    plainIds(ChainN), plainIds(ChainN))
       [] name[1] = "cap" ->
            DataSet(ThreshL, ThreshB, ThreshH, ThreshN, name[2],
                    plainIds(ThreshN), plainIds(ThreshN))
       [] name[1] = "sel" ->
            DataSet(ThreshL, ThreshB, ThreshH, SelN, name[2],
                    plainIds(SelN), plainIds(SelN))
       [] name[1] = "ext" ->
            [DataSet(ThreshL, ThreshB, ThreshH, SelN, name[2],
                     plainIds(SelN), plainIds(SelN))
               EXCEPT !.attnData = extGen(ThreshL, ThreshB, ThreshH, SelN, name[2])]
       [] name[1] = "search" ->
            DataSet(ThreshL, ThreshB, ThreshH, SearchN, name[2],
                    searchIds(SearchN), searchNames(SearchN))]

\* The constants attnData and boundsData of the script.
attnData == DataSets[dataset].attnData

boundsData == DataSets[dataset].boundsData

\* ------------------------------------------------------------- red fills
\* updateRedFills: the width of row i's bound bar, as the pair
\* <<|bv[i]|, mx>> of the quotient the script multiplies by nameBlockW.
updateRedFills(bt) ==
  LET bv == boundsData[bt]
      m0 == MaxOf({Abs(bv[i]) : i \in 0 .. N - 1})
      mx == IF m0 <= 0 THEN DataUnit ELSE m0
  IN  [i \in 0 .. N - 1 |-> <<Abs(bv[i]), mx>>]

\* ------------------------------------------------------------- threshold
\* getMatrix, with curBatch() and the head sliders' values passed in.
getMatrix(l, bt, hd) == attnData[l][bt][hd[l]]

\* The cells of m with their magnitudes v = |m[r][c]|, in the order of the
\* script's nested loops (row by row).
absCells(m) ==
  [k \in 1 .. N * N |->
     LET r == (k - 1) \div N
         c == (k - 1) % N
     IN  [r |-> r, c |-> c, v |-> Abs(m[r][c])]]

\* The threshold falling from mx as the slider rises.
thresholdFalling(mn, mx, sv) ==
  Fl(mx - Fl(Fl(sv * One, SliderMax) * Fl(mx - mn, 1), One), 1)

\* thresh = mn + (sv / 1000) * (mx - mn), each operation rounded.
thresholdOf(mn, mx, sv) ==
  Fl(mn + Fl(Fl(sv * One, SliderMax) * Fl(mx - mn, 1), One), 1)

\* The threshold of matrix m at slider value sv: mn and mx are the least and
\* the greatest |m[r][c]|.
threshold(m, sv) ==
  LET vs == {Abs(m[r][c]) : r \in 0 .. N - 1, c \in 0 .. N - 1}
  IN  thresholdOf(MinOf(vs), MaxOf(vs), sv)

\* The entries left in the order of the loops that collect them.
sortByValueSkipped(entries, values) == entries

\* entries.sort((a, b) => b.v - a.v): Array.prototype.sort is stable, so the
\* result is the entries of the greatest v in their old order, then those of
\* the next v, and so on.
RECURSIVE sortByValueDesc(_, _)
sortByValueDesc(entries, values) ==
  IF values = {} THEN <<>>
  ELSE LET top == MaxOf(values)
       IN  SelectSeq(entries, LAMBDA e : e.v = top)
             \o sortByValueDesc(entries, values \ {top})

\* The drawn entries without the slice.
sliceNone(entries) == entries

\* entries.slice(0, MAX_TL)
sliceTop(entries) ==
  SubSeq(entries, 1, IF Len(entries) < MAX_TL THEN Len(entries) ELSE MAX_TL)

\* The body of updateThreshLines on matrix m: the threshold it shows in
\* tval-l and the lines it leaves in threshGroups[l], one per drawn entry, from
\* row r of column l to row c of column l + 1.  The opacity of a line is
\* 0.05 + ((v - tval) / (mx - tval)) * 0.45, or 0.08 when mx - tval is not
\* positive: a function of v, which is kept with the line.
threshLinesOf(cells, sv) ==
  LET vs == {cells[k].v : k \in 1 .. Len(cells)}
      th == thresholdOf(MinOf(vs), MaxOf(vs), sv)
      entries == SelectSeq(cells, LAMBDA e : e.v >= th)
  IN  [tval |-> th,
       lines |-> sliceTop(sortByValueDesc(entries, {v \in vs : v >= th}))]

\* updateThreshLines(l)
updateThreshLines(l, bt, hd, sv) ==
  ApplyTo(getMatrix(l, bt, hd),
          LAMBDA m : ApplyTo(absCells(m), LAMBDA cells : threshLinesOf(cells, sv)))

\* Every layer's lines computed from the matrices of batch 0.
updateAllThreshOfFirstBatch(bt, hd, ths) ==
  [l \in 0 .. L - 1 |-> updateThreshLines(l, 0, hd, ths[l])]

\* updateAllThresh()
updateAllThresh(bt, hd, ths) ==
  [l \in 0 .. L - 1 |-> updateThreshLines(l, bt, hd, ths[l])]

\* ----------------------------------------------------------------- chain
\* The chain state the chain functions read and write: the arrays chain,
\* hlRects and segments, and what is drawn of them (hl: the highlight
\* rectangles in the svg, seg: the segment artifacts), as bags.
ChainState(ch, hl, sg, hd, sd) ==
  [chain |-> ch, hlRects |-> hl, segments |-> sg, hl |-> hd, seg |-> sd]

\* Element.remove() and appendChild on a bag of drawn elements.
removeEl(drawn, el) == drawn (-) SetToBag({el})

appendEl(drawn, el) == drawn (+) SetToBag({el})

RECURSIVE removeAll(_, _)
removeAll(drawn, els) ==
  IF els = <<>> THEN drawn
  ELSE ApplyTo(removeEl(drawn, Head(els)), LAMBDA d : removeAll(d, Tail(els)))

\* clearChain without "chain = []".
clearChainKeepsChain(st) ==
  ChainState(st.chain, <<>>, <<>>,
             removeAll(st.hl, st.hlRects), removeAll(st.seg, st.segments))

\* clearChain without the removal of the segment artifacts.
clearChainKeepsSegments(st) ==
  ChainState(<<>>, <<>>, <<>>, removeAll(st.hl, st.hlRects), st.seg)

\* clearChain
clearChain(st) ==
  ChainState(<<>>, <<>>, <<>>,
             removeAll(st.hl, st.hlRects), removeAll(st.seg, st.segments))

\* makeHL: the rectangle around node (col, idx); the caller appends it.
makeHL(col, idx) == [col |-> col, idx |-> idx]

\* makeSegment: the line from (keyCol, keyIdx) to (keyCol + 1, queryIdx) and
\* its label val; stroke width 0.3 + normed * 7.7 and opacity
\* 0.2 + normed * 0.45 with normed = nn / nd (1 / 2 when the row is flat).
makeSegment(keyCol, keyIdx, queryIdx, bt, hd) ==
  ApplyTo(getMatrix(keyCol, bt, hd)[keyIdx],
          LAMBDA row :
            LET val == row[queryIdx]
                rmin == MinOf({Abs(row[c]) : c \in 0 .. N - 1})
                rmax == MaxOf({Abs(row[c]) : c \in 0 .. N - 1})
            IN  [l |-> keyCol, key |-> keyIdx, query |-> queryIdx, val |-> val,
                 nn |-> IF rmax > rmin THEN Fl(Abs(val) - rmin, 1) ELSE 1,
                 nd |-> IF rmax > rmin THEN Fl(rmax - rmin, 1) ELSE 2])

\* redrawSegmentAt
redrawSegmentAt(st, i, bt, hd) ==
  IF i < 0 \/ i >= Len(st.segments) THEN st
  ELSE LET new == makeSegment(At(st.chain, i).col, At(st.chain, i).idx,
                              At(st.chain, i + 1).idx, bt, hd)
       IN  [st EXCEPT !.segments[i + 1] = new,
                      !.seg = appendEl(removeEl(st.seg, At(st.segments, i)), new)]

\* redrawAllSegments: the loop from segment i on.
RECURSIVE redrawAllFrom(_, _, _, _)
redrawAllFrom(st, i, bt, hd) ==
  IF i >= Len(st.segments) THEN st
  ELSE LET new == makeSegment(At(st.chain, i).col, At(st.chain, i).idx,
                              At(st.chain, i + 1).idx, bt, hd)
           nxt == [st EXCEPT !.segments[i + 1] = new,
                             !.seg = appendEl(removeEl(st.seg, At(st.segments, i)), new)]
       IN  ApplyTo(nxt, LAMBDA s : redrawAllFrom(s, i + 1, bt, hd))

redrawAllSegments(st, bt, hd) == redrawAllFrom(st, 0, bt, hd)

\* redrawSegmentsForLayer: the loop from segment i on.
RECURSIVE redrawForLayerFrom(_, _, _, _, _)
redrawForLayerFrom(st, l, i, bt, hd) ==
  IF i >= Len(st.segments) THEN st
  ELSE ApplyTo(
         IF At(st.chain, i).col = l THEN redrawSegmentAt(st, i, bt, hd) ELSE st,
         LAMBDA s : redrawForLayerFrom(s, l, i + 1, bt, hd))

\* redrawSegmentsForLayer testing chain[i + 1].col in place of chain[i].col.
redrawSegmentsForQueryLayer(st, l, bt, hd) ==
  redrawForLayerFrom(st, l - 1, 0, bt, hd)

redrawSegmentsForLayer(st, l, bt, hd) == redrawForLayerFrom(st, l, 0, bt, hd)

\* extend drawing the new segment from chain[0] in place of the last element.
extendFromFirst(st, col, idx, bt, hd) ==
  LET prev == At(st.chain, 0)
      rect == makeHL(col, idx)
      sg == makeSegment(prev.col, prev.idx, idx, bt, hd)
  IN  ChainState(Append(st.chain, [col |-> col, idx |-> idx]),
                 Append(st.hlRects, rect),
                 Append(st.segments, sg),
                 appendEl(st.hl, rect),
                 appendEl(st.seg, sg))

\* extend
extend(st, col, idx, bt, hd) ==
  LET prev == At(st.chain, Len(st.chain) - 1)
      rect == makeHL(col, idx)
      sg == makeSegment(prev.col, prev.idx, idx, bt, hd)
  IN  ChainState(Append(st.chain, [col |-> col, idx |-> idx]),
                 Append(st.hlRects, rect),
                 Append(st.segments, sg),
                 appendEl(st.hl, rect),
                 appendEl(st.seg, sg))

\* truncateFrom with segCut = pos.
truncateFromKeepsSegment(st, pos) ==
  LET segCut == pos
      hlKeep == IF Len(st.hlRects) > pos THEN pos ELSE Len(st.hlRects)
      sgKeep == IF Len(st.segments) > segCut THEN segCut ELSE Len(st.segments)
  IN  ChainState(SubSeq(st.chain, 1, pos),
                 SubSeq(st.hlRects, 1, hlKeep),
                 SubSeq(st.segments, 1, sgKeep),
                 removeAll(st.hl, SubSeq(st.hlRects, hlKeep + 1, Len(st.hlRects))),
                 removeAll(st.seg, SubSeq(st.segments, sgKeep + 1, Len(st.segments))))

\* truncateFrom cutting after the element at pos.
truncateFromAfter(st, pos) ==
  LET segCut == pos
      hlKeep == IF Len(st.hlRects) > pos + 1 THEN pos + 1 ELSE Len(st.hlRects)
      sgKeep == IF Len(st.segments) > segCut THEN segCut ELSE Len(st.segments)
  IN  ChainState(SubSeq(st.chain, 1, pos + 1),
                 SubSeq(st.hlRects, 1, hlKeep),
                 SubSeq(st.segments, 1, sgKeep),
                 removeAll(st.hl, SubSeq(st.hlRects, hlKeep + 1, Len(st.hlRects))),
                 removeAll(st.seg, SubSeq(st.segments, sgKeep + 1, Len(st.segments))))

\* truncateFrom
truncateFrom(st, pos) ==
  LET segCut == IF pos - 1 > 0 THEN pos - 1 ELSE 0
      hlKeep == IF Len(st.hlRects) > pos THEN pos ELSE Len(st.hlRects)
      sgKeep == IF Len(st.segments) > segCut THEN segCut ELSE Len(st.segments)
  IN  ChainState(SubSeq(st.chain, 1, pos),
                 SubSeq(st.hlRects, 1, hlKeep),
                 SubSeq(st.segments, 1, sgKeep),
                 removeAll(st.hl, SubSeq(st.hlRects, hlKeep + 1, Len(st.hlRects))),
                 removeAll(st.seg, SubSeq(st.segments, sgKeep + 1, Len(st.segments))))

\* replaceAt without the redraw of the segment after pos.
replaceAtNoAfter(st, pos, col, idx, bt, hd) ==
  LET rect == makeHL(col, idx)
      s1 == [st EXCEPT !.hlRects[pos + 1] = rect,
                       !.hl = appendEl(removeEl(st.hl, At(st.hlRects, pos)), rect)]
      before == makeSegment(At(st.chain, pos - 1).col, At(st.chain, pos - 1).idx,
                            idx, bt, hd)
      s2 == IF pos > 0
            THEN [s1 EXCEPT !.segments[pos] = before,
                            !.seg = appendEl(removeEl(s1.seg, At(s1.segments, pos - 1)),
                                             before)]
            ELSE s1
  IN  [s2 EXCEPT !.chain[pos + 1] = [col |-> col, idx |-> idx]]

\* replaceAt without the removal of the replaced highlight rectangle.
replaceAtKeepsHighlight(st, pos, col, idx, bt, hd) ==
  LET rect == makeHL(col, idx)
      s1 == [st EXCEPT !.hlRects[pos + 1] = rect,
                       !.hl = appendEl(st.hl, rect)]
      before == makeSegment(At(st.chain, pos - 1).col, At(st.chain, pos - 1).idx,
                            idx, bt, hd)
      s2 == IF pos > 0
            THEN [s1 EXCEPT !.segments[pos] = before,
                            !.seg = appendEl(removeEl(s1.seg, At(s1.segments, pos - 1)),
                                             before)]
            ELSE s1
      after == makeSegment(col, idx, At(st.chain, pos + 1).idx, bt, hd)
      s3 == IF pos < Len(st.chain) - 1
            THEN [s2 EXCEPT !.segments[pos + 1] = after,
                            !.seg = appendEl(removeEl(s2.seg, At(s2.segments, pos)),
                                             after)]
            ELSE s2
  IN  [s3 EXCEPT !.chain[pos + 1] = [col |-> col, idx |-> idx]]

\* replaceAt
replaceAt(st, pos, col, idx, bt, hd) ==
  LET rect == makeHL(col, idx)
      s1 == [st EXCEPT !.hlRects[pos + 1] = rect,
                       !.hl = appendEl(removeEl(st.hl, At(st.hlRects, pos)), rect)]
      before == makeSegment(At(st.chain, pos - 1).col, At(st.chain, pos - 1).idx,
                            idx, bt, hd)
      s2 == IF pos > 0
            THEN [s1 EXCEPT !.segments[pos] = before,
                            !.seg = appendEl(removeEl(s1.seg, At(s1.segments, pos - 1)),
                                             before)]
            ELSE s1
      after == makeSegment(col, idx, At(st.chain, pos + 1).idx, bt, hd)
      s3 == IF pos < Len(st.chain) - 1
            THEN [s2 EXCEPT !.segments[pos + 1] = after,
                            !.seg = appendEl(removeEl(s2.seg, At(s2.segments, pos)),
                                             after)]
            ELSE s2
  IN  [s3 EXCEPT !.chain[pos + 1] = [col |-> col, idx |-> idx]]

\* The node branch of the svg click handler, on node (col, idx).
nodeClick(st, col, idx, bt, hd) ==
  IF Len(st.chain) = 0
  THEN ChainState(Append(st.chain, [col |-> col, idx |-> idx]),
                  Append(st.hlRects, makeHL(col, idx)), st.segments,
                  appendEl(st.hl, makeHL(col, idx)), st.seg)
  ELSE LET startCol == At(st.chain, 0).col
           pos == col - startCol
       IN  IF pos = Len(st.chain) /\ At(st.chain, Len(st.chain) - 1).col < L
           THEN extend(st, col, idx, bt, hd)
           ELSE IF pos >= 0 /\ pos < Len(st.chain)
           THEN IF At(st.chain, pos).idx = idx
                THEN truncateFrom(st, pos)
                ELSE replaceAt(st, pos, col, idx, bt, hd)
           ELSE LET c == clearChain(st)
                IN  ChainState(Append(c.chain, [col |-> col, idx |-> idx]),
                               Append(c.hlRects, makeHL(col, idx)), c.segments,
                               appendEl(c.hl, makeHL(col, idx)), c.seg)

\* ------------------------------------------------------------ pinned band
\* pinnedRect = null.
Null == [row |-> -1]

\* ------------------------------------------------------------ hover band
\* activeRowIdx and rowBand: the row whose yPos is the band's y attribute
\* (none before the first showRowBand) and its visibility attribute.
HoverState(a, row, vis) ==
  [activeRowIdx |-> a, rowBand |-> [row |-> row, visibility |-> vis]]

\* showRowBand(idx)
showRowBand(hv, idx) ==
  IF idx = hv.activeRowIdx THEN hv ELSE HoverState(idx, idx, "visible")

\* hideRowBand()
hideRowBand(hv) ==
  IF hv.activeRowIdx < 0 THEN hv
  ELSE HoverState(-1, hv.rowBand.row, "hidden")

\* The elements the pointer can be over: the hit rectangle of a name bar
\* (data-nbar), a node rectangle (data-col, data-idx), any other place of
\* the svg, and the page outside the svg.
NameBar(idx) == [kind |-> "nbar", col |-> -1, idx |-> idx]

Node(col, idx) == [kind |-> "node", col |-> col, idx |-> idx]

SvgOther == [kind |-> "svg", col |-> -1, idx |-> -1]

Outside == [kind |-> "outside", col |-> -1, idx |-> -1]

\* The 'mousemove' handler of the svg, the event's target being t.
mousemove(hv, t) ==
  IF t.kind = "nbar" THEN showRowBand(hv, t.idx)
  ELSE IF t.kind = "node" THEN showRowBand(hv, t.idx)
  ELSE hideRowBand(hv)

\* The pin and search-box state the handlers below read and write: pinnedIdx,
\* pinnedRect, the children of pinBandGroup (pins, a bag), searchInput.value,
\* whether clearBtn and the dropdown are displayed, and the dropdown's result
\* items.
UiState(pi, pr, pd, sv, cs, ds, it) ==
  [pinnedIdx |-> pi, pinnedRect |-> pr, pins |-> pd, value |-> sv,
   clear |-> cs, drop |-> ds, items |-> it]

\* unpinRow
unpinRow(ui) ==
  [ui EXCEPT !.pins = IF ui.pinnedRect # Null
                      THEN removeEl(ui.pins, ui.pinnedRect) ELSE ui.pins,
             !.pinnedRect = Null,
             !.pinnedIdx = -1]

\* pinRow without the call of unpinRow.
pinRowNoUnpin(ui, idx) ==
  [ui EXCEPT !.pinnedIdx = idx,
             !.pinnedRect = [row |-> idx],
             !.pins = appendEl(ui.pins, [row |-> idx]),
             !.value = ids[idx],
             !.clear = TRUE]

\* pinRow: the new band is the rectangle at yPos[idx].
pinRow(ui, idx) ==
  LET u == unpinRow(ui)
  IN  [u EXCEPT !.pinnedIdx = idx,
                !.pinnedRect = [row |-> idx],
                !.pins = appendEl(u.pins, [row |-> idx]),
                !.value = ids[idx],
                !.clear = TRUE]

\* The name-bar branch of the svg click handler, on the bar of row idx.
nameBarClick(ui, idx) ==
  IF ui.pinnedIdx = idx
  THEN [unpinRow(ui) EXCEPT !.value = <<>>, !.clear = FALSE]
  ELSE pinRow(ui, idx)

\* ----------------------------------------------------------------- search
\* Strings are sequences of characters.  toLowerCase on the letters the
\* datasets and queries use.
UpperCase == <<"A", "B", "C">>

LowerCase == <<"a", "b", "c">>

toLowerCase(s) ==
  [k \in 1 .. Len(s) |->
     IF \E u \in 1 .. Len(UpperCase) : UpperCase[u] = s[k]
     THEN LowerCase[CHOOSE u \in 1 .. Len(UpperCase) : UpperCase[u] = s[k]]
     ELSE s[k]]

startsWith(s, q) == Len(q) <= Len(s) /\ SubSeq(s, 1, Len(q)) = q

includes(s, q) ==
  \E k \in 0 .. Len(s) - Len(q) : SubSeq(s, k + 1, k + Len(q)) = q

\* String.prototype.trim: the white space of the queries is the blank.
trim(s) ==
  LET inked == {k \in 1 .. Len(s) : s[k] # " "}
  IN  IF inked = {} THEN <<>> ELSE SubSeq(s, MinOf(inked), MaxOf(inked))

idsLower == [i \in 0 .. N - 1 |-> toLowerCase(ids[i])]

fullNamesLower == [i \in 0 .. N - 1 |-> toLowerCase(fullNames[i])]

\* The score getMatches gives entity i for the lower-cased query q.
scoreOf(i, q) ==
  IF startsWith(idsLower[i], q) THEN 3
  ELSE IF includes(idsLower[i], q) THEN 2
  ELSE IF includes(fullNamesLower[i], q) THEN 1
  ELSE -1

\* The comparator with the operands of the score difference exchanged.
compareAscending(a, b) ==
  IF a.score - b.score # 0 THEN a.score - b.score ELSE a.idx - b.idx

\* The comparator of scored.sort: b.score - a.score || a.idx - b.idx.
compareMatches(a, b) ==
  IF b.score - a.score # 0 THEN b.score - a.score ELSE a.idx - b.idx

\* Array.prototype.sort with compareMatches: each element in turn goes behind
\* the last element of the sorted part that does not compare greater.
insertMatch(sorted, e) ==
  LET before == {k \in 1 .. Len(sorted) : compareMatches(sorted[k], e) <= 0}
      at == IF before = {} THEN 0 ELSE MaxOf(before)
  IN  SubSeq(sorted, 1, at) \o <<e>> \o SubSeq(sorted, at + 1, Len(sorted))

RECURSIVE sortMatches(_, _)
sortMatches(sorted, rest) ==
  IF rest = <<>> THEN sorted
  ELSE ApplyTo(insertMatch(sorted, Head(rest)),
               LAMBDA s : sortMatches(s, Tail(rest)))

\* getMatches
getMatches(query) ==
  IF query = <<>> THEN <<>>
  ELSE LET q == toLowerCase(query)
           all == [k \in 1 .. N |-> [idx |-> k - 1, score |-> scoreOf(k - 1, q)]]
           scored == SelectSeq(all, LAMBDA m : m.score > 0)
           ranked == sortMatches(<<>>, scored)
       IN  SubSeq(ranked, 1,
                  IF Len(ranked) < MaxMatches THEN Len(ranked) ELSE MaxMatches)

\* renderDropdown: one item per match, none of them keyboard-active.
renderDropdown(ui, matches) ==
  [ui EXCEPT !.items = [k \in 1 .. Len(matches) |->
                          [idx |-> matches[k].idx, kb |-> FALSE]],
             !.drop = (Len(matches) # 0)]

\* selectResult.  The scroll container has no height of its own, so that it
\* never overflows and the scrollTop the function assigns stays 0.
selectResult(ui, idx) == pinRow([ui EXCEPT !.drop = FALSE], idx)

\* clearSearch
clearSearch(ui) ==
  unpinRow([ui EXCEPT !.value = <<>>, !.drop = FALSE, !.clear = FALSE])

\* The 'input' handler without "if (!q) unpinRow()".
searchInputKeepsPin(ui, text) ==
  LET q == trim(text)
      s1 == [ui EXCEPT !.value = text, !.clear = (q # <<>>)]
  IN  renderDropdown(s1, getMatches(q))

\* The 'input' handler of the search box, the text now being text.
searchInput(ui, text) ==
  LET q == trim(text)
      s1 == [ui EXCEPT !.value = text, !.clear = (q # <<>>)]
      s2 == IF q = <<>> THEN unpinRow(s1) ELSE s1
  IN  renderDropdown(s2, getMatches(q))

\* The 'focus' handler of the search box.
searchFocus(ui) ==
  LET q == trim(ui.value)
  IN  IF q # <<>> THEN renderDropdown(ui, getMatches(q)) ELSE ui

\* The 'keydown' handler of the search box but for Escape's blur: ai is the
\* last item of class kb-active, activeItem the first.
searchKeydown(ui, key) ==
  LET its == ui.items
      n == Len(its)
      act == {k \in 0 .. n - 1 : At(its, k).kb}
      ai == IF act = {} THEN -1 ELSE MaxOf(act)
      cleared == IF act = {} THEN its
                 ELSE [its EXCEPT ![MinOf(act) + 1].kb = FALSE]
      down == (ai + 1) % n
      up == IF ai <= 0 THEN n - 1 ELSE ai - 1
  IN  IF n = 0 THEN ui
      ELSE IF key = "ArrowDown"
      THEN [ui EXCEPT !.items = [cleared EXCEPT ![down + 1].kb = TRUE]]
      ELSE IF key = "ArrowUp"
      THEN [ui EXCEPT !.items = [cleared EXCEPT ![up + 1].kb = TRUE]]
      ELSE IF key = "Enter"
      THEN IF ai >= 0 THEN selectResult(ui, At(its, ai).idx)
           ELSE selectResult(ui, At(its, 0).idx)
      ELSE IF key = "Escape"
      THEN [ui EXCEPT !.drop = FALSE]
      ELSE ui

\* ------------------------------------------------------------------ Init
\* The state the script leaves behind when it has run: batch 0, heads 0,
\* threshold sliders at 950, updateRedFills() and updateAllThresh() done,
\* the chain empty.
InitScript(name) ==
  /\ L = DataSets[name].L /\ B = DataSets[name].B
  /\ H = DataSets[name].H /\ N = DataSets[name].N
  /\ ids = DataSets[name].ids /\ fullNames = DataSets[name].fullNames
  /\ dataset = name
  /\ batch = 0
  /\ head = [l \in 0 .. L - 1 |-> 0]
  /\ thresh = [l \in 0 .. L - 1 |-> DefaultThresh]
  /\ bval = 0
  /\ hval = [l \in 0 .. L - 1 |-> 0]
  /\ redRects = updateRedFills(0)
  /\ \E all \in {updateAllThresh(0, head, thresh)} :
       /\ tval = [l \in 0 .. L - 1 |-> all[l].tval]
       /\ threshLines = [l \in 0 .. L - 1 |-> all[l].lines]
  /\ chain = <<>> /\ hlRects = <<>> /\ segments = <<>>
  /\ hlDrawn = EmptyBag /\ segDrawn = EmptyBag
  /\ pinnedIdx = -1 /\ pinnedRect = Null /\ pinDrawn = EmptyBag
  /\ searchValue = <<>> /\ clearShown = FALSE
  /\ dropShown = FALSE /\ items = <<>>
  /\ focused = FALSE /\ timers = 0
  /\ activeRowIdx = -1 /\ rowBand = [row |-> -1, visibility |-> "hidden"]
  /\ pointer = Outside
  /\ lastOp = "none"

\* No call of a Python entrypoint is under way and nothing is displayed
\* beside the view.
NoCall == [fn |-> "none"]

Pending == [err |-> "pending", files |-> <<>>, view |-> [uid |-> -1]]

InitView(name) ==
  /\ InitScript(name)
  /\ call = NoCall /\ result = Pending /\ document = <<>>

\* --------------------------------------------------------------- actions
curChain == ChainState(chain, hlRects, segments, hlDrawn, segDrawn)

setChain(new) ==
  \E st \in {new} :
  /\ chain' = st.chain
  /\ hlRects' = st.hlRects
  /\ segments' = st.segments
  /\ hlDrawn' = st.hl
  /\ segDrawn' = st.seg

\* 'input' on the batch slider, moved to value b.
BatchInput(b) ==
  /\ b \in 0 .. B - 1
  /\ batch' = b
  /\ bval' = b
  /\ redRects' = updateRedFills(b)
  /\ \E all \in {updateAllThresh(b, head, thresh)} :
       /\ tval' = [l \in 0 .. L - 1 |-> all[l].tval]
       /\ threshLines' = [l \in 0 .. L - 1 |-> all[l].lines]
  /\ setChain(redrawAllSegments(curChain, b, head))
  /\ UNCHANGED <<dataVars, hoverVars, head, thresh, hval, pinVars, searchVars, lastOp>>

\* 'input' on layer l's head slider, moved to value h.
HeadInput(l, h) ==
  /\ l \in 0 .. L - 1 /\ h \in 0 .. H - 1
  /\ head' = [head EXCEPT ![l] = h]
  /\ hval' = [hval EXCEPT ![l] = h]
  /\ \E u \in {updateThreshLines(l, batch, head', thresh[l])} :
       /\ tval' = [tval EXCEPT ![l] = u.tval]
       /\ threshLines' = [threshLines EXCEPT ![l] = u.lines]
  /\ setChain(redrawSegmentsForLayer(curChain, l, batch, head'))
  /\ UNCHANGED <<dataVars, hoverVars, batch, thresh, bval, redRects, pinVars, searchVars, lastOp>>

\* 'input' on layer l's threshold slider, moved to value sv.
ThreshInput(l, sv) ==
  /\ l \in 0 .. L - 1 /\ sv \in 0 .. SliderMax
  /\ thresh' = [thresh EXCEPT ![l] = sv]
  /\ \E u \in {updateThreshLines(l, batch, head, sv)} :
       /\ tval' = [tval EXCEPT ![l] = u.tval]
       /\ threshLines' = [threshLines EXCEPT ![l] = u.lines]
  /\ UNCHANGED <<dataVars, hoverVars, batch, head, bval, hval, redRects, chainVars, pinVars,
               searchVars, lastOp>>

\* The branch nodeClick takes (history only).
clickBranch(st, col, idx) ==
  IF Len(st.chain) = 0 THEN "start"
  ELSE LET pos == col - At(st.chain, 0).col
       IN  IF pos = Len(st.chain) /\ At(st.chain, Len(st.chain) - 1).col < L
           THEN "extend"
           ELSE IF pos >= 0 /\ pos < Len(st.chain)
           THEN IF At(st.chain, pos).idx = idx THEN "collapse" ELSE "replace"
           ELSE "reset"

\* 'click' on the node rectangle of column col, row idx.
NodeClick(col, idx) ==
  /\ col \in 0 .. L /\ idx \in 0 .. N - 1
  /\ setChain(nodeClick(curChain, col, idx, batch, head))
  /\ lastOp' = clickBranch(curChain, col, idx)
  /\ UNCHANGED <<dataVars, hoverVars, ctlVars, edgeVars, pinVars, searchVars>>

curUi ==
  UiState(pinnedIdx, pinnedRect, pinDrawn, searchValue, clearShown, dropShown, items)

setUi(new) ==
  \E ui \in {new} :
  /\ pinnedIdx' = ui.pinnedIdx
  /\ pinnedRect' = ui.pinnedRect
  /\ pinDrawn' = ui.pins
  /\ searchValue' = ui.value
  /\ clearShown' = ui.clear
  /\ dropShown' = ui.drop
  /\ items' = ui.items

\* 'click' on the name bar of row idx.  A click outside the search box takes
\* the focus from it first (SearchBlur).
NameBarClick(idx) ==
  /\ idx \in 0 .. N - 1
  /\ ~focused
  /\ setUi(nameBarClick(curUi, idx))
  /\ lastOp' = IF pinnedIdx = idx THEN "unpin"
               ELSE IF pinnedIdx < 0 THEN "pin" ELSE "repin"
  /\ UNCHANGED <<dataVars, hoverVars, ctlVars, edgeVars, chainVars, focused, timers>>

\* 'input' on the search box: the user has edited the text to text.
SearchInput(text) ==
  /\ focused
  /\ text # searchValue
  /\ setUi(searchInput(curUi, text))
  /\ UNCHANGED <<dataVars, hoverVars, ctlVars, edgeVars, chainVars, focused, timers, lastOp>>

\* 'focus' on the search box.
SearchFocus ==
  /\ ~focused
  /\ focused' = TRUE
  /\ setUi(searchFocus(curUi))
  /\ UNCHANGED <<dataVars, hoverVars, ctlVars, edgeVars, chainVars, timers, lastOp>>

\* 'blur' on the search box: setTimeout(..., 150).
SearchBlur ==
  /\ focused
  /\ timers < MaxTimers
  /\ focused' = FALSE
  /\ timers' = timers + 1
  /\ UNCHANGED <<dataVars, hoverVars, ctlVars, edgeVars, chainVars, pinVars, searchValue,
                 clearShown, dropShown, items, lastOp>>

\* A timeout set by a blur expires.
BlurTimeout ==
  /\ timers > 0
  /\ timers' = timers - 1
  /\ dropShown' = FALSE
  /\ UNCHANGED <<dataVars, hoverVars, ctlVars, edgeVars, chainVars, pinVars, searchValue,
                 clearShown, items, focused, lastOp>>

\* 'mousedown' on the k-th item of the displayed dropdown (preventDefault:
\* the focus stays where it is).
ItemMouseDown(k) ==
  /\ dropShown
  /\ k \in 0 .. Len(items) - 1
  /\ setUi(selectResult(curUi, At(items, k).idx))
  /\ UNCHANGED <<dataVars, hoverVars, ctlVars, edgeVars, chainVars, focused, timers, lastOp>>

\* 'keydown' on the search box.  Escape ends with searchInput.blur(), which
\* runs the blur handler.
SearchKeydown(key) ==
  /\ focused
  /\ setUi(searchKeydown(curUi, key))
  /\ IF key = "Escape" /\ Len(items) # 0
     THEN /\ timers < MaxTimers
          /\ focused' = FALSE
          /\ timers' = timers + 1
     ELSE UNCHANGED <<focused, timers>>
  /\ UNCHANGED <<dataVars, hoverVars, ctlVars, edgeVars, chainVars, lastOp>>

\* 'click' on the clear button, which is displayed.
ClearClick ==
  /\ ~focused
  /\ clearShown
  /\ setUi(clearSearch(curUi))
  /\ UNCHANGED <<dataVars, hoverVars, ctlVars, edgeVars, chainVars, focused, timers, lastOp>>

\* The pointer moves onto element t.  The svg's 'mousemove' handler runs
\* when t is the svg or one of its descendants; a move onto the page outside
\* the svg dispatches nothing to it.
PointerMove(t) ==
  /\ t # pointer
  /\ pointer' = t
  /\ \E hv \in {IF t.kind = "outside"
                 THEN HoverState(activeRowIdx, rowBand.row, rowBand.visibility)
                 ELSE mousemove(HoverState(activeRowIdx, rowBand.row,
                                           rowBand.visibility), t)} :
       /\ activeRowIdx' = hv.activeRowIdx
       /\ rowBand' = hv.rowBand
  /\ UNCHANGED <<dataVars, ctlVars, edgeVars, chainVars, pinVars, searchVars, lastOp>>

\* ------------------------------------------------- the chain specification
Init == InitView(<<"chain", 0>>)

Next ==
  \/ \E col \in 0 .. L, idx \in 0 .. N - 1 : NodeClick(col, idx)
  \/ \E b \in 0 .. B - 1 : BatchInput(b)
  \/ \E l \in 0 .. L - 1, h \in 0 .. H - 1 : HeadInput(l, h)

Spec == Init /\ [][Next]_vars

\* -------------------------------------------------- the click specification
\* Node clicks under a moving batch slider, from the dataset of Spec.
NextClick ==
  \/ \E col \in 0 .. L, idx \in 0 .. N - 1 : NodeClick(col, idx)
  \/ \E b \in 0 .. B - 1 : BatchInput(b)

SpecClick == Init /\ [][NextClick]_vars

\* ---------------------------------------------- the edge-cap specification
\* Matrices of more than MAX_TL cells, the threshold sliders at their initial
\* value or at 0, where every cell is at or above the threshold.
CapStops == {0, DefaultThresh}

InitCap == \E seed \in CapSeeds : InitView(<<"cap", seed>>)

NextCap ==
  \/ \E l \in 0 .. L - 1, sv \in CapStops : ThreshInput(l, sv)
  \/ \E b \in 0 .. B - 1 : BatchInput(b)
  \/ \E l \in 0 .. L - 1, h \in 0 .. H - 1 : HeadInput(l, h)

SpecCap == InitCap /\ [][NextCap]_vars

\* --------------------------------------------- the threshold specification
\* Small matrices, the threshold sliders at every tenth of their range.
SliderStops == {100 * k : k \in 0 .. 10}

InitThresh == \E seed \in SelSeeds : InitView(<<"sel", seed>>)

NextThresh ==
  \/ \E l \in 0 .. L - 1, sv \in SliderStops : ThreshInput(l, sv)
  \/ \E b \in 0 .. B - 1 : BatchInput(b)
  \/ \E l \in 0 .. L - 1, h \in 0 .. H - 1 : HeadInput(l, h)

SpecThresh == InitThresh /\ [][NextThresh]_vars

\* ------------------------------------------- the extremes specification
\* The sliders of SpecThresh over matrices whose magnitudes differ in their
\* exponents.
InitExtremes == \E seed \in ExtSeeds : InitView(<<"ext", seed>>)

SpecExtremes == InitExtremes /\ [][NextThresh]_vars

\* ------------------------------------------------ the edges specification
\* The three kinds of sliders over the layers of the dataset of Spec, the
\* threshold sliders at both ends, in the middle and at their initial value.
EdgeStops == {0, SliderMax \div 2, DefaultThresh, SliderMax}

NextEdges ==
  \/ \E l \in 0 .. L - 1, sv \in EdgeStops : ThreshInput(l, sv)
  \/ \E b \in 0 .. B - 1 : BatchInput(b)
  \/ \E l \in 0 .. L - 1, h \in 0 .. H - 1 : HeadInput(l, h)

SpecEdges == Init /\ [][NextEdges]_vars

\* ------------------------------------------------ the search specification
\* The texts the user types and the keys the user presses.
Queries == {<<>>, <<" ">>, <<"a">>, <<" ", "A">>, <<"a", "b">>, <<"z">>}

Keys == {"ArrowDown", "ArrowUp", "Enter", "Escape", "Shift"}

InitSearch == InitView(<<"search", 0>>)

NextSearch ==
  \/ \E idx \in 0 .. N - 1 : NameBarClick(idx)
  \/ \E text \in Queries : SearchInput(text)
  \/ SearchFocus
  \/ SearchBlur
  \/ BlurTimeout
  \/ \E k \in 0 .. MaxMatches - 1 : ItemMouseDown(k)
  \/ \E key \in Keys : SearchKeydown(key)
  \/ ClearClick

SpecSearch == InitSearch /\ [][NextSearch]_vars

\* ------------------------------------------------- the hover specification
\* The search bar and the name bars of the dataset of Spec under a moving
\* pointer.
PointerTargets ==
  {NameBar(idx) : idx \in 0 .. N - 1}
    \cup {Node(col, idx) : col \in {0, L}, idx \in 0 .. N - 1}
    \cup {SvgOther, Outside}

NextHover ==
  \/ NextSearch
  \/ \E t \in PointerTargets : PointerMove(t)

SpecHover == Init /\ [][NextHover]_vars

\* ============================================================ Python side
\* ------------------------------------------------------------------ bytes
\* The printable ASCII characters, from code 32 on (the grave accent by its
\* name).  Strings are sequences of them; str.encode('utf-8') gives one byte per character.
Printable ==
  <<
    " ", "!", "\"", "#", "$", "%", "&", "'", "(", ")", "*", "+",
    ",", "-", ".", "/", "0", "1", "2", "3", "4", "5", "6", "7",
    "8", "9", ":", ";", "<", "=", ">", "?", "@", "A", "B", "C",
    "D", "E", "F", "G", "H", "I", "J", "K", "L", "M", "N", "O",
    "P", "Q", "R", "S", "T", "U", "V", "W", "X", "Y", "Z", "[",
    "\\", "]", "^", "_", "grave", "a", "b", "c", "d", "e", "f", "g",
    "h", "i", "j", "k", "l", "m", "n", "o", "p", "q", "r", "s",
    "t", "u", "v", "w", "x", "y", "z", "{", "|", "}", "~"
  >>

Ord == [c \in {Printable[k] : k \in DOMAIN Printable} |->
          31 + (CHOOSE k \in DOMAIN Printable : Printable[k] = c)]

Chr(b) == Printable[b - 31]

encodeUtf8(s) == [k \in 1 .. Len(s) |-> Ord[s[k]]]

\* The i-th byte (from the low end) of the integer code in two's complement.
byteOf(code, i) == (code \div Pow2(8 * i)) % 256

\* struct.pack('<I', n): four bytes, little-endian.
packU32(n) == [k \in 1 .. 4 |-> byteOf(n, k - 1)]

\* The decimal digits of a non-negative integer, as json.dumps writes them.
RECURSIVE digitsOf(_)
digitsOf(n) ==
  LET d == <<Printable[17 + (n % 10)]>>
  IN  IF n < 10 THEN d ELSE digitsOf(n \div 10) \o d

\* Sequences of sequences, joined.
RECURSIVE joinAll(_)
joinAll(ss) == IF ss = <<>> THEN <<>> ELSE Head(ss) \o joinAll(Tail(ss))

\* ----------------------------------------------------------- numpy arrays
\* Element widths in bytes, and the significant bits the model gives each
\* float type: float64 holds every value of the model exactly.
ItemSize == [float64 |-> 8, float32 |-> 4, float16 |-> 2]

SigBits == [float64 |-> 4 * FloatBits, float32 |-> FloatBits + 2,
            float16 |-> FloatBits - 1]

\* The nearest number of at most bits significant bits (ties to even).
RECURSIVE spacing(_, _, _)
spacing(a, bits, q) ==
  IF a < q * Pow2(bits) THEN q ELSE spacing(a, bits, 2 * q)

roundTo(v, bits) ==
  LET a == Abs(v)
      q == spacing(a, bits, 1)
      r == q * RoundNE(a, q)
  IN  IF v < 0 THEN -r ELSE r

RECURSIVE Product(_)
Product(shape) ==
  IF shape = <<>> THEN 1 ELSE Head(shape) * Product(Tail(shape))

NdArray(shape, dtype, data) == [shape |-> shape, dtype |-> dtype, data |-> data]

\* np.asarray(a, dtype=dtype)
asarray(a, dtype) ==
  NdArray(a.shape, dtype,
          [k \in 1 .. Len(a.data) |-> roundTo(a.data[k], SigBits[dtype])])

\* a.tobytes(): the elements in row-major order, each as the ItemSize bytes
\* of its value, little-endian.
tobytes(a) ==
  LET w == ItemSize[a.dtype]
  IN  [j \in 1 .. Len(a.data) * w |->
         byteOf(a.data[((j - 1) \div w) + 1], (j - 1) % w)]

\* a[idxs] for a list idxs of indices of the first axis is defined when every
\* index lies in -dim .. dim - 1; negative indices count from the end.
indexable(a, idxs) ==
  \A k \in 1 .. Len(idxs) : -a.shape[1] <= idxs[k] /\ idxs[k] < a.shape[1]

take(a, idxs) ==
  LET rs == Product(Tail(a.shape))
      row(k) == IF idxs[k] < 0 THEN idxs[k] + a.shape[1] ELSE idxs[k]
  IN  NdArray(<<Len(idxs)>> \o Tail(a.shape), a.dtype,
              [j \in 1 .. Len(idxs) * rs |->
                 a.data[row(((j - 1) \div rs) + 1) * rs + ((j - 1) % rs) + 1]])

\* ------------------------------------------------------------- json.dumps
\* The strings of the header, as sequences of characters.
HeaderText ==
  [format |-> <<"f", "o", "r", "m", "a", "t">>,
   attnbin_v1 |-> <<"a", "t", "t", "n", "b", "i", "n", "_", "v", "1">>,
   N |-> <<"N">>, B |-> <<"B">>, H |-> <<"H">>, L |-> <<"L">>,
   dtype |-> <<"d", "t", "y", "p", "e">>,
   float16 |-> <<"f", "l", "o", "a", "t", "1", "6">>,
   reaction_ids |-> <<"r", "e", "a", "c", "t", "i", "o", "n", "_", "i", "d", "s">>,
   full_names |-> <<"f", "u", "l", "l", "_", "n", "a", "m", "e", "s">>]

\* JSON values: integers, strings, lists of strings.
JInt(n) == [t |-> "int", int |-> n, str |-> <<>>, list |-> <<>>]

JStr(s) == [t |-> "str", int |-> 0, str |-> s, list |-> <<>>]

JList(xs) == [t |-> "list", int |-> 0, str |-> <<>>, list |-> xs]

\* A string between quotes: the ids and names of the model hold no
\* character that json.dumps escapes.
jsonString(s) == <<"\"">> \o s \o <<"\"">>

\* The items, each after the first behind sep.
RECURSIVE jsonJoin(_, _)
jsonJoin(parts, sep) ==
  IF parts = <<>> THEN <<>>
  ELSE IF Len(parts) = 1 THEN parts[1]
  ELSE parts[1] \o sep \o jsonJoin(Tail(parts), sep)

jsonValue(v) ==
  IF v.t = "int" THEN digitsOf(v.int)
  ELSE IF v.t = "str" THEN jsonString(v.str)
  ELSE <<"[">> \o jsonJoin([k \in 1 .. Len(v.list) |-> jsonString(v.list[k])],
                           <<",">>) \o <<"]">>

\* json.dumps(dict, separators=(',', ':')) of the dict with the items pairs,
\* in insertion order.
jsonDumps(pairs) ==
  <<"{">> \o jsonJoin([k \in 1 .. Len(pairs) |->
                         jsonString(pairs[k][1]) \o <<":">> \o jsonValue(pairs[k][2])],
                      <<",">>) \o <<"}">>

\* ------------------------------------------------------ export_attention
\* What a call leaves behind: the exception it raised ("none" when it
\* returned), the files it wrote, in order, and the view it displayed.
NoView == [uid |-> -1]

Outcome(err, files, view) == [err |-> err, files |-> files, view |-> view]

Raised(err) == Outcome(err, <<>>, NoView)

File(name, bytes) == [name |-> name, bytes |-> bytes]

\* reaction_names_dict.get(rid, rid) for every id.
fullNamesOf(reaction_ids, reaction_names_dict) ==
  [k \in 1 .. Len(reaction_ids) |->
     IF reaction_ids[k] \in DOMAIN reaction_names_dict
     THEN reaction_names_dict[reaction_ids[k]] ELSE reaction_ids[k]]

\* "Validate all layers"
layersValid(attention_tensors, nB, nH, nN) ==
  \A i \in 1 .. Len(attention_tensors) :
    attention_tensors[i].shape = <<nB, nH, nN, nN>>

\* export_attention_data
export_attention_data(filepath, reaction_ids, reaction_names_dict, attention_tensors, input_bounds) ==
  IF Len(attention_tensors) = 0 THEN Raised("IndexError")
  ELSE
  LET nL == Len(attention_tensors)
      nB == attention_tensors[1].shape[1]
      nH == attention_tensors[1].shape[2]
      nN == attention_tensors[1].shape[3]
      bounds32 == asarray(input_bounds, "float32")
      full_names == fullNamesOf(reaction_ids, reaction_names_dict)
      header == encodeUtf8(jsonDumps(
        << <<HeaderText.format, JStr(HeaderText.attnbin_v1)>>, <<HeaderText.N, JInt(nN)>>,
           <<HeaderText.B, JInt(nB)>>, <<HeaderText.H, JInt(nH)>>, <<HeaderText.L, JInt(nL)>>,
           <<HeaderText.reaction_ids, JList(reaction_ids)>>,
           <<HeaderText.full_names, JList(full_names)>> >>))
  IN  IF Len(reaction_ids) # nN THEN Raised("AssertionError")
      ELSE IF bounds32.shape # <<nB, nN>> THEN Raised("AssertionError")
      ELSE IF ~layersValid(attention_tensors, nB, nH, nN)
      THEN Raised("AssertionError")
      ELSE Outcome("none",
             <<File(filepath,
                    packU32(Len(header)) \o header \o tobytes(bounds32)
                    \o joinAll([i \in 1 .. nL |->
                         tobytes(asarray(attention_tensors[i], "float32"))]))>>,
             NoView)

\* export_attention_data_fp16
export_attention_data_fp16(filepath, reaction_ids, reaction_names_dict, attention_tensors, input_bounds) ==
  IF Len(attention_tensors) = 0 THEN Raised("IndexError")
  ELSE
  LET nL == Len(attention_tensors)
      nB == attention_tensors[1].shape[1]
      nH == attention_tensors[1].shape[2]
      nN == attention_tensors[1].shape[3]
      bounds32 == asarray(input_bounds, "float32")
      full_names == fullNamesOf(reaction_ids, reaction_names_dict)
      header == encodeUtf8(jsonDumps(
        << <<HeaderText.format, JStr(HeaderText.attnbin_v1)>>, <<HeaderText.N, JInt(nN)>>,
           <<HeaderText.B, JInt(nB)>>, <<HeaderText.H, JInt(nH)>>, <<HeaderText.L, JInt(nL)>>,
           <<HeaderText.dtype, JStr(HeaderText.float16)>>,
           <<HeaderText.reaction_ids, JList(reaction_ids)>>,
           <<HeaderText.full_names, JList(full_names)>> >>))
  IN  IF Len(reaction_ids) # nN THEN Raised("AssertionError")
      ELSE IF bounds32.shape # <<nB, nN>> THEN Raised("AssertionError")
      ELSE Outcome("none",
             <<File(filepath,
                    packU32(Len(header)) \o header \o tobytes(bounds32)
                    \o joinAll([i \in 1 .. nL |->
                         tobytes(asarray(attention_tensors[i], "float16"))]))>>,
             NoView)

\* batch_indices: None, or a list of indices.
None == [given |-> FALSE, list |-> <<>>]

Indices(list) == [given |-> TRUE, list |-> list]

\* export_attention_subset
export_attention_subset(filepath, reaction_ids, reaction_names_dict, attention_tensors, input_bounds, batch_indices, fp16) ==
  IF batch_indices.given
     /\ (~indexable(input_bounds, batch_indices.list)
         \/ \E i \in 1 .. Len(attention_tensors) :
              ~indexable(attention_tensors[i], batch_indices.list))
  THEN Raised("IndexError")
  ELSE
  LET bounds == IF batch_indices.given
                THEN take(input_bounds, batch_indices.list) ELSE input_bounds
      tensors == IF batch_indices.given
                 THEN [i \in 1 .. Len(attention_tensors) |->
                         take(attention_tensors[i], batch_indices.list)]
                 ELSE attention_tensors
  IN  IF fp16
      THEN export_attention_data_fp16(filepath, reaction_ids,
                                      reaction_names_dict, tensors, bounds)
      ELSE export_attention_data(filepath, reaction_ids,
                                 reaction_names_dict, tensors, bounds)

\* range(start, end) as a list.
rangeList(start, end) ==
  [k \in 1 .. (IF end > start THEN end - start ELSE 0) |-> start + k - 1]

\* export_attention_chunked from the chunk that starts at batch start on,
\* with the files written before it.  An exception leaves the files of the
\* earlier chunks where they are.
RECURSIVE chunksFrom(_, _, _, _, _, _, _, _, _)
chunksFrom(start, chunk_idx, written, reaction_ids, reaction_names_dict, attention_tensors, input_bounds, chunk_size, fp16) ==
  LET nB == attention_tensors[1].shape[1]
      end == MinOf({start + chunk_size, nB})
      r == export_attention_subset(<<"chunk", chunk_idx>>, reaction_ids,
             reaction_names_dict, attention_tensors, input_bounds,
             Indices(rangeList(start, end)), fp16)
  IN  IF start >= nB THEN Outcome("none", written, NoView)
      ELSE IF r.err # "none" THEN Outcome(r.err, written, NoView)
      ELSE chunksFrom(start + chunk_size, chunk_idx + 1, written \o r.files,
                      reaction_ids, reaction_names_dict, attention_tensors,
                      input_bounds, chunk_size, fp16)

\* export_attention_chunked (chunk_size >= 1)
export_attention_chunked(reaction_ids, reaction_names_dict, attention_tensors, input_bounds, chunk_size, fp16) ==
  IF Len(attention_tensors) = 0 THEN Raised("IndexError")
  ELSE chunksFrom(0, 0, <<>>, reaction_ids, reaction_names_dict,
                  attention_tensors, input_bounds, chunk_size, fp16)

\* -------------------------------------------------- show_attention_graph
\* np.round(x, 6): the values of the model count halves of 1e-6; ties go to
\* the even neighbour.
round6(v) == IF v < 0 THEN -(2 * RoundNE(-v, 2)) ELSE 2 * RoundNE(v, 2)

\* The markup and script show_attention_graph displays for the instance id
\* uid: the constants of the script.
View(uid, nL, nB, nH, nN, idv, names, attn, bnds) ==
  [uid |-> uid, L |-> nL, B |-> nB, H |-> nH, N |-> nN, ids |-> idv,
   fullNames |-> names, attnData |-> attn, boundsData |-> bnds]

\* show_attention_graph, random.randint having returned uid.
show_attention_graph(reaction_ids, reaction_names_dict, attention_tensors, input_bounds, uid) ==
  IF Len(attention_tensors) = 0 THEN Raised("IndexError")
  ELSE
  LET nL == Len(attention_tensors)
      nB == attention_tensors[1].shape[1]
      nH == attention_tensors[1].shape[2]
      nN == attention_tensors[1].shape[3]
      bounds == asarray(input_bounds, "float64")
      attn_data == [i \in 1 .. nL |->
                      [attention_tensors[i] EXCEPT
                         !.data = [k \in DOMAIN @ |-> round6(@[k])]]]
      bounds_data == [bounds EXCEPT !.data = [k \in DOMAIN @ |-> round6(@[k])]]
  IN  IF nN # Len(reaction_ids) THEN Raised("AssertionError")
      ELSE IF bounds.shape # <<nB, nN>> THEN Raised("AssertionError")
      ELSE Outcome("none", <<>>,
                   View(uid, nL, nB, nH, nN, reaction_ids,
                        fullNamesOf(reaction_ids, reaction_names_dict),
                        attn_data, bounds_data))

\* ------------------------------------------------------ hosting document
\* One entry per displayed wrapper, in document order: its instance id, the
\* number of positions of its batch slider (max = B - 1), the scripts (by
\* the position of their wrapper) that drew into its svg and that listen to
\* its controls, the value of its batch slider, the text of its batch label,
\* and the batch the red fills of its own script show.
Wrapper(view) ==
  [uid |-> view.uid, B |-> view.B, scripts |-> <<>>, batch |-> 0, bval |-> 0,
   fills |-> 0]

\* document.getElementById(uid + '-...'): the first element of that id in
\* document order.
getElementById(doc, uid) ==
  MinOf({k \in 1 .. Len(doc) : doc[k].uid = uid})

\* display(HTML(html)): the wrapper goes to the end of the document, then its
\* script runs: svgEl and every control are looked up by id, and
\* updateRedFills() reads curBatch().
display(doc, view) ==
  LET d1 == Append(doc, Wrapper(view))
      at == getElementById(d1, view.uid)
  IN  [d1 EXCEPT ![at].scripts = Append(@, Len(d1)),
                 ![Len(d1)].fills = d1[at].batch]

\* 'input' on the batch slider of wrapper k, moved to b: every script that
\* listens to it writes the batch label it finds by id and redraws its red
\* fills for the batch curBatch() finds by id.
docBatchInput(doc, k, b) ==
  LET d1 == [doc EXCEPT ![k].batch = b]
  IN  [j \in 1 .. Len(d1) |->
         [d1[j] EXCEPT
            !.bval = IF \E s \in 1 .. Len(d1[k].scripts) :
                          getElementById(d1, d1[d1[k].scripts[s]].uid) = j
                     THEN b ELSE @,
            !.fills = IF \E s \in 1 .. Len(d1[k].scripts) : d1[k].scripts[s] = j
                      THEN d1[getElementById(d1, d1[j].uid)].batch ELSE @]]

\* ------------------------------------------------------ attnbin_v1 decode
\* The reader of the format, from the layout of the specification.
unpackU32(bs) == bs[1] + 256 * bs[2] + 65536 * bs[3] + 16777216 * bs[4]

IsDigit(c) == \E k \in 17 .. 26 : Printable[k] = c

digitValue(c) == (CHOOSE k \in 17 .. 26 : Printable[k] = c) - 17

\* The first position at or after pos where s holds c (Len(s) + 1 if none).
RECURSIVE findChar(_, _, _)
findChar(s, c, pos) ==
  IF pos > Len(s) \/ s[pos] = c THEN pos ELSE findChar(s, c, pos + 1)

\* The number written from pos on: <<value, next position>>.
RECURSIVE parseInt(_, _, _)
parseInt(s, pos, acc) ==
  IF pos <= Len(s) /\ IsDigit(s[pos])
  THEN parseInt(s, pos + 1, 10 * acc + digitValue(s[pos]))
  ELSE <<acc, pos>>

\* The string whose opening quote is at pos.
parseString(s, pos) ==
  LET end == findChar(s, "\"", pos + 1)
  IN  <<SubSeq(s, pos + 1, end - 1), end + 1>>

\* The strings of a list from pos (behind "[" or ",") on.
RECURSIVE parseStrings(_, _, _)
parseStrings(s, pos, acc) ==
  IF s[pos] = "]" THEN <<acc, pos + 1>>
  ELSE LET e == parseString(s, pos)
       IN  IF s[e[2]] = "," THEN parseStrings(s, e[2] + 1, Append(acc, e[1]))
           ELSE <<Append(acc, e[1]), e[2] + 1>>

parseValue(s, pos) ==
  IF s[pos] = "\"" THEN LET e == parseString(s, pos) IN <<JStr(e[1]), e[2]>>
  ELSE IF s[pos] = "[" THEN LET e == parseStrings(s, pos + 1, <<>>)
                            IN  <<JList(e[1]), e[2]>>
  ELSE LET e == parseInt(s, pos, 0) IN <<JInt(e[1]), e[2]>>

\* The items of the object from pos (behind "{" or ",") on.
RECURSIVE parseItems(_, _, _)
parseItems(s, pos, acc) ==
  IF pos > Len(s) \/ s[pos] = "}" THEN acc
  ELSE LET k == parseString(s, pos)
           v == parseValue(s, k[2] + 1)
           items1 == Append(acc, <<k[1], v[1]>>)
       IN  IF v[2] <= Len(s) /\ s[v[2]] = ","
           THEN parseItems(s, v[2] + 1, items1) ELSE items1

\* json.loads of the header bytes.
jsonLoads(bs) == parseItems([k \in 1 .. Len(bs) |-> Chr(bs[k])], 2, <<>>)

hasKey(pairs, key) == \E k \in 1 .. Len(pairs) : pairs[k][1] = key

getKey(pairs, key) ==
  pairs[CHOOSE k \in 1 .. Len(pairs) : pairs[k][1] = key][2]

\* The value of the element whose bytes are bs (little-endian).
unpackFloat(bs) ==
  LET w == Len(bs)
      top == IF bs[w] >= 128 THEN bs[w] - 256 ELSE bs[w]
  IN  IF w = 2 THEN bs[1] + 256 * top
      ELSE bs[1] + 256 * bs[2] + 65536 * bs[3] + 16777216 * top

\* The array of the given shape and type stored from byte offset off on.
frombuffer(bs, off, shape, dtype) ==
  LET w == ItemSize[dtype]
  IN  NdArray(shape, dtype,
              [k \in 1 .. Product(shape) |->
                 unpackFloat(SubSeq(bs, off + (k - 1) * w + 1, off + k * w))])

\* The header of a file, and the widths it declares.
headerLength(bs) == unpackU32(SubSeq(bs, 1, 4))

headerOf(bs) == jsonLoads(SubSeq(bs, 5, 4 + headerLength(bs)))

dtypeOf(hd) == IF hasKey(hd, HeaderText.dtype) /\ getKey(hd, HeaderText.dtype).str = HeaderText.float16
               THEN "float16" ELSE "float32"

\* decode: the dataset a file holds; ok is FALSE (MalformedFile) when the
\* file is shorter than its header declares.
decode(bs) ==
  LET hlen == headerLength(bs)
      hd == headerOf(bs)
      nN == getKey(hd, HeaderText.N).int
      nB == getKey(hd, HeaderText.B).int
      nH == getKey(hd, HeaderText.H).int
      nL == getKey(hd, HeaderText.L).int
      dt == dtypeOf(hd)
      w == ItemSize[dt]
      base == 4 + hlen + nB * nN * 4
      layerBytes == nB * nH * nN * nN * w
  IN  IF Len(bs) < 4 \/ Len(bs) < 4 + hlen THEN [ok |-> FALSE]
      ELSE IF Len(bs) < base + nL * layerBytes THEN [ok |-> FALSE]
      ELSE [ok |-> TRUE, N |-> nN, B |-> nB, H |-> nH, L |-> nL, dtype |-> dt,
            ids |-> getKey(hd, HeaderText.reaction_ids).list,
            names |-> getKey(hd, HeaderText.full_names).list,
            bounds |-> frombuffer(bs, 4 + hlen, <<nB, nN>>, "float32"),
            layers |-> [l \in 1 .. nL |->
                          frombuffer(bs, base + (l - 1) * layerBytes,
                                     <<nB, nH, nN, nN>>, dt)]]

\* ------------------------------------------------ arguments of the calls
\* Reaction ids "R0", "R1", ...; the names dict knows every other id.
pyIds(n) == [k \in 1 .. n |-> <<"R">> \o digitsOf(k - 1)]

pyNames(n) ==
  [id \in {pyIds(n)[k] : k \in {j \in 1 .. n : j % 2 = 1}} |-> <<"n", "_">> \o id]

\* float64 arrays: values that float32 holds exactly, values that only
\* float64 holds, of both signs when signed is TRUE.
pyArray(shape, salt, signed) ==
  NdArray(shape, "float64",
          [k \in 1 .. Product(shape) |->
             LET v == (13 * k + 29 * salt) % (6 * Pow2(FloatBits))
             IN  IF signed /\ k % 2 = 0 THEN -v ELSE v])

\* What is wrong with the arguments of a call: nothing, one id too many,
\* bounds with one row or one column too many, the first layer with one
\* column too many, the last of two or more layers with one entity or one
\* batch too many, bounds with one row too few.
Defects ==
  {"none", "ids", "boundsRows", "boundsCols", "layerFirst", "layerLast",
   "layerBatch", "boundsFewer"}

layerShape(d, i) ==
  IF i = 1 /\ d.defect = "layerFirst" THEN <<d.B, d.H, d.N, d.N + 1>>
  ELSE IF i > 1 /\ i = d.L /\ d.defect = "layerLast"
  THEN <<d.B, d.H, d.N + 1, d.N + 1>>
  ELSE IF i > 1 /\ i = d.L /\ d.defect = "layerBatch"
  THEN <<d.B + 1, d.H, d.N, d.N>>
  ELSE <<d.B, d.H, d.N, d.N>>

\* The arguments described by d = [L, B, H, N, defect].
PyArgs(d) ==
  [reaction_ids |-> pyIds(IF d.defect = "ids" THEN d.N + 1 ELSE d.N),
   reaction_names_dict |-> pyNames(d.N),
   attention_tensors |-> [i \in 1 .. d.L |-> pyArray(layerShape(d, i), i, FALSE)],
   input_bounds |->
     pyArray(IF d.defect = "boundsRows" THEN <<d.B + 1, d.N>>
             ELSE IF d.defect = "boundsFewer" THEN <<d.B - 1, d.N>>
             ELSE IF d.defect = "boundsCols" THEN <<d.B, d.N + 1>>
             ELSE <<d.B, d.N>>, 0, TRUE)]

PyInputs ==
  [L : 0 .. PyL, B : 1 .. PyB, H : 1 .. PyH, N : 1 .. PyN, defect : Defects]

\* Datasets: every layer (B, H, N, N), bounds (B, N), N ids.
PyDatasets == {d \in PyInputs : d.defect = "none"}

\* The index lists of the subset exports of a dataset of nB batches: every
\* list of at most two batch indices, and one with an index out of range.
SubsetLists(nB) ==
  {<<>>, <<nB>>} \cup {<<i>> : i \in 0 .. nB - 1}
  \cup {<<i, j>> : i \in 0 .. nB - 1, j \in 0 .. nB - 1}

PyCall(fn, d, bi, cs, fp16) ==
  [fn |-> fn, input |-> d, batch_indices |-> bi, chunk_size |-> cs, fp16 |-> fp16]

\* --------------------------------------------------- calls of the exports
\* A call is fixed by Init; the action of its function runs it.
viewVars == <<L, B, H, N, ids, fullNames, dataset, ctlVars, edgeVars,
              chainVars, pinVars, searchVars, hoverVars, lastOp>>

ExportFull ==
  /\ call.fn = "export_attention_data" /\ result = Pending
  /\ \E a \in {PyArgs(call.input)} :
       result' = export_attention_data(<<"out", 0>>, a.reaction_ids,
                   a.reaction_names_dict, a.attention_tensors, a.input_bounds)
  /\ UNCHANGED <<viewVars, call, document>>

ExportFp16 ==
  /\ call.fn = "export_attention_data_fp16" /\ result = Pending
  /\ \E a \in {PyArgs(call.input)} :
       result' = export_attention_data_fp16(<<"out", 0>>, a.reaction_ids,
                   a.reaction_names_dict, a.attention_tensors, a.input_bounds)
  /\ UNCHANGED <<viewVars, call, document>>

ExportSubset ==
  /\ call.fn = "export_attention_subset" /\ result = Pending
  /\ \E a \in {PyArgs(call.input)} :
       result' = export_attention_subset(<<"out", 0>>, a.reaction_ids,
                   a.reaction_names_dict, a.attention_tensors, a.input_bounds,
                   call.batch_indices, call.fp16)
  /\ UNCHANGED <<viewVars, call, document>>

ExportChunked ==
  /\ call.fn = "export_attention_chunked" /\ result = Pending
  /\ call.chunk_size >= 1
  /\ \E a \in {PyArgs(call.input)} :
       result' = export_attention_chunked(a.reaction_ids,
                   a.reaction_names_dict, a.attention_tensors, a.input_bounds,
                   call.chunk_size, call.fp16)
  /\ UNCHANGED <<viewVars, call, document>>

\* ------------------------------------------------ the export specification
\* One call of an export on any argument list.
ExportCalls ==
  {PyCall("export_attention_data", d, None, 0, FALSE) : d \in PyInputs}
  \cup {PyCall("export_attention_data_fp16", d, None, 0, TRUE) : d \in PyInputs}
  \cup UNION {{PyCall("export_attention_subset", d, bi, 0, fp16) :
                 bi \in {None} \cup {Indices(x) : x \in SubsetLists(d.B)},
                 fp16 \in BOOLEAN} : d \in PyInputs}
  \cup {PyCall("export_attention_chunked", d, None, cs, fp16) :
          d \in PyInputs, cs \in 1 .. MaxChunk, fp16 \in BOOLEAN}

InitExport ==
  /\ InitScript(<<"chain", 0>>)
  /\ call \in ExportCalls /\ result = Pending /\ document = <<>>

NextExport == ExportFull \/ ExportFp16 \/ ExportSubset \/ ExportChunked

SpecExport == InitExport /\ [][NextExport]_vars

\* ------------------------------------------------ show_attention_graph calls
\* The values random.randint returns in the model.
Uids == UidBase .. UidBase + UidCount - 1

\* The call c of show_attention_graph: random.randint returns any uid; when
\* no assertion fails the view is displayed in the hosting document.
ShowGraph(c) ==
  \E a \in {PyArgs(c.input)}, uid \in Uids :
    \E r \in {show_attention_graph(a.reaction_ids, a.reaction_names_dict,
                                    a.attention_tensors, a.input_bounds, uid)} :
      /\ call' = c
      /\ result' = r
      /\ document' = IF r.err = "none" THEN display(document, r.view)
                     ELSE document
      /\ UNCHANGED viewVars

\* One call of show_attention_graph on any argument list, in an empty
\* document.
ShowCalls == {PyCall("show_attention_graph", d, None, 0, FALSE) : d \in PyInputs}

Show == call.fn = "show_attention_graph" /\ result = Pending /\ ShowGraph(call)

InitShow ==
  /\ InitScript(<<"chain", 0>>)
  /\ call \in ShowCalls /\ result = Pending /\ document = <<>>

NextShow == Show

SpecShow == InitShow /\ [][NextShow]_vars

\* ------------------------------------------------------- a hosting document
\* A notebook that displays up to MaxViews views of datasets of one layer,
\* one head and one entity, and whose user moves the batch sliders.
HostDatasets == {d \in PyDatasets : d.L = 1 /\ d.H = 1 /\ d.N = 1}

HostShow ==
  /\ Len(document) < MaxViews
  /\ \E d \in HostDatasets :
       ShowGraph(PyCall("show_attention_graph", d, None, 0, FALSE))

\* The user moves the batch slider of wrapper k to b.
DocBatchInput(k, b) ==
  /\ k \in 1 .. Len(document)
  /\ b \in 0 .. document[k].B - 1
  /\ document' = docBatchInput(document, k, b)
  /\ UNCHANGED <<viewVars, call, result>>

InitHost ==
  /\ InitScript(<<"chain", 0>>)
  /\ call = NoCall /\ result = Pending /\ document = <<>>

NextHost ==
  \/ HostShow
  \/ \E k \in 1 .. MaxViews, b \in 0 .. PyB - 1 : DocBatchInput(k, b)

SpecHost == InitHost /\ [][NextHost]_vars

\* ================================================================ claims
\* The bag of the elements of a sequence.
seqBag(s) ==
  [x \in {s[k] : k \in DOMAIN s} |-> Cardinality({k \in DOMAIN s : s[k] = x})]

\* The highlight rectangle of node (col, idx).
HighlightAt(col, idx) == [col |-> col, idx |-> idx]

\* Segment sg joins el to nxt and shows the value of batch bt, heads hd.
Joins(sg, el, nxt, bt, hd) ==
  /\ sg.l = el.col /\ sg.key = el.idx /\ sg.query = nxt.idx
  /\ sg.val = attnData[el.col][bt][hd[el.col]][el.idx][nxt.idx]

\* C1: after any sequence of node clicks the chain's columns are contiguous
\* and increasing, chain[0].column <= L, and every element has its column in
\* [0, L] and its row in [0, N).
C1_ChainContiguous ==
  /\ \A i \in 0 .. Len(chain) - 1 :
       /\ At(chain, i).col = At(chain, 0).col + i
       /\ At(chain, i).col \in 0 .. L
       /\ At(chain, i).idx \in 0 .. N - 1
  /\ Len(chain) > 0 => At(chain, 0).col <= L

C1_Witness == Len(chain) = L + 1 /\ lastOp = "extend" /\ batch = B - 1

\* C2: chain segments are never stale: every drawn segment i is the one
\* derived from layer chain[i].column (a layer index in [0, L - 1]), rows
\* (chain[i].row, chain[i + 1].row), the current batch and the current head
\* of that layer.
C2_SegmentsFresh ==
  /\ segDrawn = seqBag(segments)
  /\ \A i \in 0 .. Len(segments) - 1 :
       /\ i + 1 < Len(chain)
       /\ At(chain, i).col \in 0 .. L - 1
       /\ Joins(At(segments, i), At(chain, i), At(chain, i + 1), batch, head)
       /\ At(segments, i) =
            makeSegment(At(chain, i).col, At(chain, i).idx, At(chain, i + 1).idx,
                        batch, head)

C2_Witness ==
  /\ Len(segments) = L
  /\ batch # 0
  /\ \A l \in 0 .. L - 1 : head[l] # 0

\* C3: a click on the node of chain[pos] (same row) leaves exactly the first
\* pos elements of the chain, and removes exactly the highlights of the
\* removed elements and the segments touching a removed element.
C3_Collapse ==
  [][\A c \in 0 .. L, i \in 0 .. N - 1 :
       LET pos == c - At(chain, 0).col
       IN  (/\ Len(chain) > 0
            /\ 0 <= pos /\ pos < Len(chain)
            /\ At(chain, pos).idx = i
            /\ NodeClick(c, i))
           => /\ chain' = SubSeq(chain, 1, pos)
              /\ hlRects' = SubSeq(hlRects, 1, pos)
              /\ Len(segments') = Cardinality({k \in 0 .. Len(segments) - 1 : k + 1 < pos})
              /\ \A k \in 0 .. Len(segments') - 1 : At(segments', k) = At(segments, k)
              /\ hlDrawn' (+) seqBag([k \in 1 .. Len(chain) - pos |->
                                        HighlightAt(chain[pos + k].col,
                                                    chain[pos + k].idx)])
                   = hlDrawn
              /\ segDrawn' (+) seqBag([k \in 1 .. Len(segments) - Len(segments') |->
                                         segments[Len(segments') + k]])
                   = segDrawn]_vars

C3_Witness == lastOp = "collapse" /\ Len(chain) >= 1

\* C4: a click on another row of a column of the chain changes only the
\* element at pos; the chain length, every other element, every other
\* highlight and every segment other than pos - 1 and pos stay, and segments
\* pos - 1 and pos (those that exist) are derived anew with the new row.
C4_Replace ==
  [][\A c \in 0 .. L, i \in 0 .. N - 1 :
       LET pos == c - At(chain, 0).col
       IN  (/\ Len(chain) > 0
            /\ 0 <= pos /\ pos < Len(chain)
            /\ At(chain, pos).idx # i
            /\ NodeClick(c, i))
           => /\ Len(chain') = Len(chain)
              /\ \A k \in 0 .. Len(chain) - 1 :
                   At(chain', k) = IF k = pos THEN [col |-> c, idx |-> i]
                                   ELSE At(chain, k)
              /\ Len(hlRects') = Len(hlRects)
              /\ \A k \in 0 .. Len(hlRects) - 1 :
                   At(hlRects', k) = IF k = pos THEN HighlightAt(c, i)
                                     ELSE At(hlRects, k)
              /\ hlDrawn' (+) SetToBag({At(hlRects, pos)})
                   = hlDrawn (+) SetToBag({HighlightAt(c, i)})
              /\ Len(segments') = Len(segments)
              /\ \A k \in 0 .. Len(segments) - 1 :
                   IF k = pos - 1 \/ k = pos
                   THEN Joins(At(segments', k), At(chain', k), At(chain', k + 1),
                              batch, head)
                   ELSE At(segments', k) = At(segments, k)
              /\ segDrawn' = seqBag(segments')]_vars

C4_Witness == lastOp = "replace" /\ Len(chain) = L + 1

\* C5: a click in the column after the chain's last appends {c, i}: the
\* earlier elements stay, exactly one highlight is added, and exactly one
\* segment, joining the previous last element to the new one.
C5_Extend ==
  [][\A c \in 0 .. L, i \in 0 .. N - 1 :
       LET last == At(chain, Len(chain) - 1)
       IN  (/\ Len(chain) > 0
            /\ c - At(chain, 0).col = Len(chain)
            /\ last.col < L
            /\ NodeClick(c, i))
           => /\ chain' = Append(chain, [col |-> c, idx |-> i])
              /\ hlRects' = Append(hlRects, HighlightAt(c, i))
              /\ hlDrawn' = hlDrawn (+) SetToBag({HighlightAt(c, i)})
              /\ Len(segments') = Len(segments) + 1
              /\ SubSeq(segments', 1, Len(segments)) = segments
              /\ Joins(At(segments', Len(segments)), last, [col |-> c, idx |-> i],
                       batch, head)
              /\ segDrawn' = segDrawn (+) SetToBag({At(segments', Len(segments))})]_vars

C5_Witness == lastOp = "extend" /\ Len(chain) = 2 /\ Len(segments) = 1

\* C6: a click when the chain is empty, or in a column outside the chain and
\* its extension, leaves exactly the one-element chain [{c, i}], with one
\* highlight and no segment.
C6_StartReset ==
  [][\A c \in 0 .. L, i \in 0 .. N - 1 :
       ((\/ Len(chain) = 0
         \/ c < At(chain, 0).col
         \/ c > At(chain, 0).col + Len(chain))
        /\ NodeClick(c, i))
       => /\ chain' = <<[col |-> c, idx |-> i]>>
          /\ hlRects' = <<HighlightAt(c, i)>>
          /\ hlDrawn' = SetToBag({HighlightAt(c, i)})
          /\ segments' = <<>>
          /\ segDrawn' = EmptyBag]_vars

C6_Witness == lastOp = "reset" /\ Len(chain) = 1 /\ hlDrawn # EmptyBag

\* C7: in every reachable state and for every layer, at most MAX_TL (600)
\* threshold edges are drawn, whatever the batch, the heads, the threshold
\* sliders and the number of cells at or above the threshold.
C7_EdgeCap == \A l \in 0 .. L - 1 : Len(threshLines[l]) <= MAX_TL

\* The cells of layer l's current matrix at or above the shown threshold.
Qualifying(l) ==
  {rc \in (0 .. N - 1) \X (0 .. N - 1) :
     Abs(getMatrix(l, batch, head)[rc[1]][rc[2]]) >= tval[l]}

C7_Witness ==
  \E l \in 0 .. L - 1 :
    /\ batch # 0 /\ head[l] # 0
    /\ Cardinality(Qualifying(l)) > MAX_TL
    /\ Len(threshLines[l]) = MAX_TL

\* C8: for a fixed (layer, batch, head) matrix, a step that takes layer l's
\* threshold slider from s1 to s2 >= s1 does not lower the threshold
\* min + (s / 1000) * (max - min) and does not raise the number of drawn
\* edges; a step to s2 <= s1 does not raise the threshold and does not lower
\* the number of drawn edges.
C8_ThresholdMonotone ==
  [][\A l \in 0 .. L - 1 :
       (batch' = batch /\ head'[l] = head[l])
         => /\ thresh[l] <= thresh'[l]
                 => /\ tval[l] <= tval'[l]
                    /\ Len(threshLines'[l]) <= Len(threshLines[l])
            /\ thresh'[l] <= thresh[l]
                 => /\ tval'[l] <= tval[l]
                    /\ Len(threshLines[l]) <= Len(threshLines'[l])]_vars

\* Layer l's slider stands below its initial value and not at 0, and its
\* threshold is lower and its edges are more than they are for this matrix at
\* the initial value.
C8_Witness ==
  \E l \in 0 .. L - 1 :
    /\ 0 < thresh[l] /\ thresh[l] < DefaultThresh
    /\ batch # 0 /\ head[l] # 0
    /\ tval[l] < threshold(getMatrix(l, batch, head), DefaultThresh)
    /\ Len(threshLines[l])
         > Len(updateThreshLines(l, batch, head, DefaultThresh).lines)

\* The score of entity i for query q: 3 if the lower-cased id starts with the
\* lower-cased q, else 2 if it contains it, else 1 if the lower-cased display
\* name contains it, else 0.
RankScore(i, q) ==
  IF startsWith(toLowerCase(ids[i]), toLowerCase(q)) THEN 3
  ELSE IF includes(toLowerCase(ids[i]), toLowerCase(q)) THEN 2
  ELSE IF includes(toLowerCase(fullNames[i]), toLowerCase(q)) THEN 1
  ELSE 0

\* With sc the scores of the entities 0 .. N - 1 in a row, entity i ranks
\* before entity j: higher score, or equal score and lower index.
RanksBefore(sc, i, j) ==
  \/ At(sc, i) > At(sc, j)
  \/ At(sc, i) = At(sc, j) /\ i < j

\* res is the first MaxMatches (12) entries, or all if there are fewer, of
\* the list of the entities with a positive score in ranking order.
IsRankingBy(sc, res) ==
  LET positive == {i \in 0 .. N - 1 : At(sc, i) > 0}
      listed == {res[k] : k \in 1 .. Len(res)}
  IN  /\ listed \subseteq positive
      /\ \A k \in 1 .. Len(res) - 1 : RanksBefore(sc, res[k], res[k + 1])
      /\ Len(res) = IF Cardinality(positive) < MaxMatches
                    THEN Cardinality(positive) ELSE MaxMatches
      /\ \A i \in positive \ listed : \A j \in listed : RanksBefore(sc, j, i)
      /\ \A k1, k2 \in 1 .. Len(res) :
           (At(sc, res[k1]) = 3 /\ At(sc, res[k2]) = 1) => k1 < k2

IsRanking(res, q) ==
  ApplyTo(<<>> \o [k \in 1 .. N |-> RankScore(k - 1, q)],
          LAMBDA sc : IsRankingBy(sc, res))

\* C9: for every non-empty query q the list getMatches(q) returns, which the
\* dropdown shows, is the first 12 (or fewer) entities with a positive score
\* in the order of descending score and, at equal score, ascending index;
\* every call for q (a text edit to q, a later focus on the same text) gives
\* this same list, and id-prefix matches precede name-only matches.
C9_SearchRanking ==
  [][\A text \in Queries :
       (/\ trim(text) # <<>>
        /\ searchValue' = text
        /\ \/ focused /\ searchValue # text /\ SearchInput(text)
           \/ ~focused /\ focused' /\ searchValue = text /\ SearchFocus)
         => /\ IsRanking([k \in 1 .. Len(items') |-> items'[k].idx], trim(text))
            /\ dropShown' = (items' # <<>>)]_vars

\* The dropdown shows the 12 best of more than 12 matches of the text in the
\* search box, id-prefix matches and name-only matches among them.
C9_Witness ==
  /\ searchValue \in Queries /\ dropShown /\ focused
  /\ Len(items) = MaxMatches
  /\ Cardinality({i \in 0 .. N - 1 : RankScore(i, trim(searchValue)) > 0})
       > MaxMatches
  /\ \E k \in 1 .. Len(items) : RankScore(items[k].idx, trim(searchValue)) = 3
  /\ \E k \in 1 .. Len(items) : RankScore(items[k].idx, trim(searchValue)) = 1
  /\ \E k \in 1 .. Len(items) : RankScore(items[k].idx, trim(searchValue)) = 2
  /\ IsRanking([k \in 1 .. Len(items) |-> items[k].idx], trim(searchValue))

\* C10: at most one pinned band exists, it exists exactly when a row is
\* pinned, and it sits on the pinned row: whenever a row is pinned (also when
\* another row was pinned before) its band is the only one.
C10_SinglePin ==
  /\ pinnedIdx \in -1 .. N - 1
  /\ BagCardinality(pinDrawn) <= 1
  /\ (pinDrawn # EmptyBag) <=> (pinnedIdx >= 0)
  /\ (pinnedIdx >= 0) <=> (pinnedRect # Null)
  /\ pinnedIdx >= 0
       => /\ pinnedRect = [row |-> pinnedIdx]
          /\ pinDrawn = SetToBag({pinnedRect})

\* The last name-bar click pinned a row while another row was pinned.
C10_Witness ==
  /\ lastOp = "repin"
  /\ pinnedIdx >= 0
  /\ pinDrawn = SetToBag({[row |-> pinnedIdx]})

\* A step that pins a row: the pinned row changes to a row, or a result is
\* chosen by mouse or by Enter (which may be the row already pinned).
PinsRow ==
  /\ pinnedIdx' >= 0
  /\ \/ pinnedIdx' # pinnedIdx
     \/ /\ ~dropShown' /\ timers' = timers /\ focused' = focused
        /\ \/ \E k \in 0 .. Len(items) - 1 : ItemMouseDown(k)
           \/ items # <<>> /\ SearchKeydown("Enter")

\* A step that unpins the pinned row and pins no other.
UnpinsRow == pinnedIdx >= 0 /\ pinnedIdx' < 0

\* C11: right after every step that pins a row the search box text is that
\* row's id, and right after every step that unpins a row without pinning
\* another (name bar of the pinned row, clear button, text edited to an empty
\* or blank query) the search box text is empty.
C11_PinSearchSync ==
  [][/\ PinsRow => searchValue' = ids[pinnedIdx']
     /\ UnpinsRow => searchValue' = <<>>]_vars

\* The same with the unpinning steps leaving a text that trims to empty.
C11_PinSearchSyncTrimmed ==
  [][/\ PinsRow => searchValue' = ids[pinnedIdx']
     /\ UnpinsRow => trim(searchValue') = <<>>]_vars

\* The arguments described by d are no dataset of d.N entities, d.B batches
\* and d.H heads: an id too many or too few, bounds not (B, N), or a layer
\* not (B, H, N, N).
ShapeMismatch(d) ==
  LET a == PyArgs(d)
  IN  \/ Len(a.reaction_ids) # d.N
      \/ a.input_bounds.shape # <<d.B, d.N>>
      \/ \E i \in 1 .. Len(a.attention_tensors) :
           a.attention_tensors[i].shape # <<d.B, d.H, d.N, d.N>>

Returned == result # Pending

\* C12: the full export and the float16 export both reject arguments with a
\* shape mismatch (a layer not (B, H, N, N), len(ids) # N, bounds not (B, N)):
\* the call raises and no file is written.
C12_EncodeValidation ==
  (/\ Returned
   /\ call.fn \in {"export_attention_data", "export_attention_data_fp16"}
   /\ ShapeMismatch(call.input))
  => (result.err # "none" /\ result.files = <<>>)

\* The same of the full export alone.
C12_FullExportValidates ==
  (Returned /\ call.fn = "export_attention_data" /\ ShapeMismatch(call.input))
  => (result.err # "none" /\ result.files = <<>>)

\* Array y holds the values of array x within the precision of dtype: same
\* shape, and no element further from x's than half the spacing of dtype
\* there.
WithinPrecision(x, y, dtype) ==
  /\ y.shape = x.shape
  /\ Len(y.data) = Len(x.data)
  /\ \A k \in 1 .. Len(x.data) :
       2 * Abs(y.data[k] - x.data[k]) <= spacing(Abs(x.data[k]), SigBits[dtype], 1)

\* The display names of the dataset of the arguments a.
DisplayNames(a) ==
  [k \in 1 .. Len(a.reaction_ids) |->
     IF a.reaction_ids[k] \in DOMAIN a.reaction_names_dict
     THEN a.reaction_names_dict[a.reaction_ids[k]] ELSE a.reaction_ids[k]]

\* The file bs decodes to the dataset of the arguments a of d, its layers
\* within the precision of dtype.
DecodesTo(bs, d, a, dtype) ==
  LET x == decode(bs)
  IN  /\ x.ok
      /\ x.N = d.N /\ x.B = d.B /\ x.H = d.H /\ x.L = d.L
      /\ x.ids = a.reaction_ids
      /\ x.names = DisplayNames(a)
      /\ WithinPrecision(a.input_bounds, x.bounds, "float32")
      /\ \A l \in 1 .. d.L :
           WithinPrecision(a.attention_tensors[l], x.layers[l], dtype)

\* C13: for every dataset of L >= 0 layers the full export succeeds, and its
\* file decodes to the ids, display names, bounds and layer values of the
\* dataset (values within float32 precision).
C13_RoundTrip ==
  (Returned /\ call.fn = "export_attention_data" /\ ~ShapeMismatch(call.input))
  => /\ result.err = "none"
     /\ Len(result.files) = 1
     /\ DecodesTo(result.files[1].bytes, call.input, PyArgs(call.input),
                  "float32")

\* The same of the datasets of at least one layer.
C13_RoundTripLayered ==
  (/\ Returned /\ call.fn = "export_attention_data"
   /\ ~ShapeMismatch(call.input) /\ call.input.L >= 1)
  => /\ result.err = "none"
     /\ Len(result.files) = 1
     /\ DecodesTo(result.files[1].bytes, call.input, PyArgs(call.input),
                  "float32")

\* The batches of the arguments that the j-th file of the call holds, in the
\* file's order: all of them, the index list of a subset export, the j-th
\* run of chunk_size batches of a chunked export.
FileBatches(j) ==
  LET nB == call.input.B
      cs == call.chunk_size
  IN  IF call.fn = "export_attention_chunked"
      THEN [k \in 1 .. MinOf({cs, nB - (j - 1) * cs}) |-> (j - 1) * cs + k - 1]
      ELSE IF call.batch_indices.given THEN call.batch_indices.list
      ELSE [k \in 1 .. nB |-> k - 1]

\* Element [b][h][r][c] of a four-dimensional array, FALSE-safe: the index
\* of the element in the row-major data.
FlatIndex(t, b, h, r, c) ==
  ((b * t.shape[2] + h) * t.shape[3] + r) * t.shape[4] + c + 1

\* Value v is x within the precision of dtype.
Near(x, v, dtype) ==
  2 * Abs(v - x) <= spacing(Abs(x), SigBits[dtype], 1)

\* The bytes bs are laid out as attnbin_v1 prescribes and hold the batches
\* bts of the arguments a: header length, header, bounds, layer blocks and
\* nothing else; every (layer, batch, head) region lies in the file at the
\* offset of the formula and holds that matrix row-major; the regions are
\* disjoint and cover the layer bytes.
LaidOut(bs, a, bts) ==
  LET hlen == headerLength(bs)
      hd == headerOf(bs)
      nN == getKey(hd, HeaderText.N).int
      nB == getKey(hd, HeaderText.B).int
      nH == getKey(hd, HeaderText.H).int
      nL == getKey(hd, HeaderText.L).int
      dt == IF hasKey(hd, HeaderText.dtype) THEN "float16" ELSE "float32"
      w == IF hasKey(hd, HeaderText.dtype) THEN 2 ELSE 4
      base == 4 + hlen + nB * nN * 4
      off(l, b, h) == base + l * nB * nH * nN * nN * w + (b * nH + h) * nN * nN * w
      slices == (0 .. nL - 1) \X (0 .. nB - 1) \X (0 .. nH - 1)
  IN  /\ Len(bs) = base + nL * (nB * nH * nN * nN * w)
      /\ nB = Len(bts) /\ nL = Len(a.attention_tensors)
      /\ \A b \in 0 .. nB - 1, i \in 0 .. nN - 1 :
           Near(a.input_bounds.data[bts[b + 1] * a.input_bounds.shape[2] + i + 1],
                unpackFloat(SubSeq(bs, 4 + hlen + (b * nN + i) * 4 + 1,
                                   4 + hlen + (b * nN + i) * 4 + 4)), "float32")
      /\ \A s \in slices :
           /\ off(s[1], s[2], s[3]) >= base
           /\ off(s[1], s[2], s[3]) + nN * nN * w <= Len(bs)
           /\ \A r \in 0 .. nN - 1, c \in 0 .. nN - 1 :
                LET t == a.attention_tensors[s[1] + 1]
                    at == off(s[1], s[2], s[3]) + (r * nN + c) * w
                IN  Near(t.data[FlatIndex(t, bts[s[2] + 1], s[3], r, c)],
                         unpackFloat(SubSeq(bs, at + 1, at + w)), dt)
      /\ \A s \in slices, u \in slices :
           s # u => \/ off(s[1], s[2], s[3]) + nN * nN * w <= off(u[1], u[2], u[3])
                    \/ off(u[1], u[2], u[3]) + nN * nN * w <= off(s[1], s[2], s[3])
      /\ Cardinality(slices) * nN * nN * w = Len(bs) - base

\* C14: every file an export writes has the attnbin_v1 byte layout, and the
\* offset formula finds every (layer, batch, head) matrix in it.
C14_ByteLayout ==
  Returned =>
    \A j \in 1 .. Len(result.files) :
      LaidOut(result.files[j].bytes, PyArgs(call.input), FileBatches(j))

\* The same of the exports of datasets.
C14_ByteLayoutOfDatasets ==
  (Returned /\ ~ShapeMismatch(call.input)) =>
    \A j \in 1 .. Len(result.files) :
      LaidOut(result.files[j].bytes, PyArgs(call.input), FileBatches(j))

\* The file bs holds the projection of the dataset d (arguments a) to the
\* batches bts: it declares B = Len(bts) and the N, H, L, ids and names of
\* d, its k-th bounds row is d's row bts[k] and the k-th batch slice of
\* every layer is that layer's slice bts[k] (values within the file's dtype).
ProjectionOf(bs, d, a, bts, dtype) ==
  LET x == decode(bs)
  IN  /\ x.ok
      /\ x.dtype = dtype
      /\ x.B = Len(bts) /\ x.N = d.N /\ x.H = d.H /\ x.L = d.L
      /\ x.ids = a.reaction_ids
      /\ x.names = DisplayNames(a)
      /\ \A k \in 1 .. Len(bts) :
           /\ \A i \in 0 .. d.N - 1 :
                Near(a.input_bounds.data[bts[k] * d.N + i + 1],
                     x.bounds.data[(k - 1) * d.N + i + 1], "float32")
           /\ \A l \in 1 .. d.L, h \in 0 .. d.H - 1,
                 r \in 0 .. d.N - 1, c \in 0 .. d.N - 1 :
                Near(a.attention_tensors[l].data[
                       FlatIndex(a.attention_tensors[l], bts[k], h, r, c)],
                     x.layers[l].data[FlatIndex(x.layers[l], k - 1, h, r, c)],
                     dtype)

ValidIndices(d, bi) ==
  bi.given => \A k \in 1 .. Len(bi.list) : bi.list[k] \in 0 .. d.B - 1

\* What C15 says of the subset export of a dataset of at least minL layers.
SubsetProjects(minL) ==
  (/\ Returned /\ call.fn = "export_attention_subset"
   /\ call.input.defect = "none" /\ call.input.L >= minL
   /\ ValidIndices(call.input, call.batch_indices))
  => LET a == PyArgs(call.input)
         dtype == IF call.fp16 THEN "float16" ELSE "float32"
     IN  /\ result.err = "none"
         /\ Len(result.files) = 1
         /\ ProjectionOf(result.files[1].bytes, call.input, a, FileBatches(1),
                         dtype)
         /\ ~call.batch_indices.given =>
              result.files =
                IF call.fp16
                THEN export_attention_data_fp16(<<"out", 0>>, a.reaction_ids,
                       a.reaction_names_dict, a.attention_tensors,
                       a.input_bounds).files
                ELSE export_attention_data(<<"out", 0>>, a.reaction_ids,
                       a.reaction_names_dict, a.attention_tensors,
                       a.input_bounds).files

\* C15: for every dataset and every list of valid batch indices, in any order
\* and with or without duplicates, the subset export writes the projection
\* of the dataset to that list; without a list it writes what the full
\* export writes.
C15_SubsetProjection == SubsetProjects(0)

\* The same of the datasets of at least one layer.
C15_SubsetProjectionLayered == SubsetProjects(1)

\* The sum of the batch counts the first n files declare.
RECURSIVE BatchesBefore(_, _)
BatchesBefore(files, n) ==
  IF n = 0 THEN 0
  ELSE BatchesBefore(files, n - 1) + getKey(headerOf(files[n].bytes), HeaderText.B).int

\* What C16 says of the chunked export of a dataset of at least minL layers.
ChunksPartition(minL) ==
  (/\ Returned /\ call.fn = "export_attention_chunked"
   /\ call.input.defect = "none" /\ call.input.L >= minL)
  => LET a == PyArgs(call.input)
         fs == result.files
         dtype == IF call.fp16 THEN "float16" ELSE "float32"
     IN  /\ result.err = "none"
         /\ \A j \in 1 .. Len(fs) :
              LET nb == getKey(headerOf(fs[j].bytes), HeaderText.B).int
                  first == BatchesBefore(fs, j - 1)
              IN  /\ fs[j].name = <<"chunk", j - 1>>
                  /\ 1 <= nb /\ nb <= call.chunk_size
                  /\ ProjectionOf(fs[j].bytes, call.input, a,
                                  [k \in 1 .. nb |-> first + k - 1], dtype)
         /\ BatchesBefore(fs, Len(fs)) = call.input.B

\* C16: for every dataset of B batches and every chunk size >= 1 the chunked
\* export writes chunk_0, chunk_1, ... in order, each a non-empty run of at
\* most chunk_size consecutive batches with its own batch count and the full
\* entity lists in its header, the runs following one another from batch 0
\* to batch B - 1.
C16_ChunkPartition == ChunksPartition(0)

\* The same of the datasets of at least one layer.
C16_ChunkPartitionLayered == ChunksPartition(1)

\* C17: a call of show_attention_graph whose arguments are inconsistent (the
\* number of ids is not N, the bounds are not (B, N), or some layer, the
\* first or a later one, is not (B, H, N, N)) raises an error and displays
\* no view.
C17_RenderPrecondition ==
  (/\ Returned /\ call.fn = "show_attention_graph"
   /\ ShapeMismatch(call.input))
  => (result.err # "none" /\ result.view = NoView /\ document = <<>>)

\* The same of the mismatches show_attention_graph asserts: the ids and the
\* bounds.
C17_RenderChecksIdsAndBounds ==
  (/\ Returned /\ call.fn = "show_attention_graph"
   /\ call.input.defect \in {"ids", "boundsRows", "boundsCols"})
  => (result.err # "none" /\ result.view = NoView /\ document = <<>>)

DistinctUids ==
  \A i \in 1 .. Len(document), j \in 1 .. Len(document) :
    i # j => document[i].uid # document[j].uid

\* Wrapper j is drawn into and listened to by its own script only, and what
\* its script shows follows its own batch slider.
Isolated(j) ==
  /\ document[j].scripts = <<j>>
  /\ document[j].bval = document[j].batch
  /\ document[j].fills = document[j].batch

\* C18: the views displayed in one document have pairwise different
\* instance ids, and every view is drawn and driven by its own script only:
\* an input on one view changes nothing another view's script shows.
C18_InstanceIsolation ==
  DistinctUids /\ \A j \in 1 .. Len(document) : Isolated(j)

\* Views of different instance ids are isolated.
C18_IsolatedWhenDistinct ==
  DistinctUids => \A j \in 1 .. Len(document) : Isolated(j)

\* C19: no change of the view is deferred: the expiry of a timer changes
\* nothing, so that the dropdown a focus event shows in the focused search
\* box stays displayed until the next blur, selection, dismiss or clear.
C19_NoDeferredChange ==
  [][(timers' < timers /\ focused) => dropShown' = dropShown]_vars

\* The rows of getMatches of the current text of the search box.
MatchedRows ==
  LET m == getMatches(trim(searchValue)) IN {m[k].idx : k \in 1 .. Len(m)}

\* The step is the keydown handler of the search box whose dropdown holds
\* items, run for key.
KeydownStep(key) ==
  /\ focused /\ items # <<>>
  /\ ctlVars' = ctlVars /\ edgeVars' = edgeVars /\ chainVars' = chainVars
  /\ SearchKeydown(key)

\* C20: ArrowDown, ArrowUp and Enter change the keyboard highlight or the
\* pin only while the dropdown is displayed, and Enter pins only a row of
\* getMatches of the current text of the search box.
C20_KeysOnDisplayedList ==
  [][/\ \A key \in {"ArrowDown", "ArrowUp", "Enter"} :
          (~dropShown /\ KeydownStep(key))
          => (items' = items /\ pinVars' = pinVars)
     /\ KeydownStep("Enter") => pinnedIdx' \in MatchedRows]_vars

\* The step is the keydown handler run for Escape in a search box whose
\* dropdown holds items: the dropdown is hidden and the box blurred.
EscapeStep ==
  /\ focused /\ items # <<>>
  /\ ~focused' /\ ~dropShown' /\ timers' = timers + 1
  /\ SearchKeydown("Escape")

NoKeyboardHighlight(its) == \A k \in 1 .. Len(its) : ~its[k].kb

\* C21: an Escape key press in the search box leaves the pinned row and the
\* search text as they are, and after it no item of the result list carries
\* the keyboard highlight (class kb-active).
C21_Dismiss ==
  [][EscapeStep => /\ pinVars' = pinVars
                   /\ searchValue' = searchValue
                   /\ NoKeyboardHighlight(items')]_vars

\* Escape leaves the pinned row and the search text as they are.
C21_DismissKeepsPin ==
  [][EscapeStep => (pinVars' = pinVars /\ searchValue' = searchValue)]_vars

\* C22: the subset and the chunked export of arguments whose layers or
\* bounds disagree in a dimension raise an error and write no file: no
\* earlier chunk stays written and no index list makes the arguments
\* acceptable.
C22_NoOutputOnMismatch ==
  (/\ Returned
   /\ call.fn \in {"export_attention_subset", "export_attention_chunked"}
   /\ ShapeMismatch(call.input))
  => (result.err # "none" /\ result.files = <<>>)

\* The subset export without an index list and without fp16 is the full
\* export, which rejects every mismatch.
C22_SubsetWithoutListValidates ==
  (/\ Returned /\ call.fn = "export_attention_subset"
   /\ ~call.batch_indices.given /\ ~call.fp16
   /\ ShapeMismatch(call.input))
  => (result.err # "none" /\ result.files = <<>>)

\* The lines drawn for layer l and the threshold shown for it are those the
\* selection gives for the matrix at (l, current batch, current head of l)
\* and the value of layer l's threshold slider.
EdgesMatch(l) ==
  LET sel == threshLinesOf(absCells(attnData[l][batch][head[l]]), thresh[l])
  IN  threshLines[l] = sel.lines /\ tval[l] = sel.tval

\* C23: initially and after every batch, head and threshold slider event
\* the drawn threshold edges of every layer are the selection for that
\* layer's current matrix and slider value; hence an event that leaves the
\* batch, the head and the threshold slider of a layer as they are leaves
\* that layer's edges as they are.
C23_EdgesMatchControls == \A l \in 0 .. L - 1 : EdgesMatch(l)

\* The batch slider, a head slider and a threshold slider have been moved:
\* layer 0 shows another head's matrix, layer 1 every cell.
C23_Witness ==
  /\ dataset = <<"chain", 0>> /\ L >= 2
  /\ batch = 1 /\ head[0] = 1 /\ head[1] = 0
  /\ thresh[0] = DefaultThresh /\ thresh[1] = 0
  /\ Len(threshLines[1]) = N * N
  /\ Len(threshLines[0]) < N * N
  /\ \A l \in 0 .. L - 1 : EdgesMatch(l)

\* Magnitude of cell rc of layer l's current matrix.
Magnitude(l, rc) == Abs(getMatrix(l, batch, head)[rc[1]][rc[2]])

\* The cells layer l's drawn lines stand for.
DrawnCells(l) ==
  {<<threshLines[l][k].r, threshLines[l][k].c>> : k \in 1 .. Len(threshLines[l])}

\* C24: of every layer, each drawn edge is a cell at or above the threshold
\* and is drawn once; when at most MAX_TL (600) cells qualify all of them
\* are drawn; when more qualify, MAX_TL are drawn and no qualifying cell
\* left out has a greater magnitude than a drawn one.
C24_TopK ==
  \A l \in 0 .. L - 1 :
    LET q == Qualifying(l)
        d == DrawnCells(l)
    IN  /\ d \subseteq q
        /\ Cardinality(d) = Len(threshLines[l])
        /\ Cardinality(q) <= MAX_TL => d = q
        /\ Cardinality(q) > MAX_TL =>
             /\ Cardinality(d) = MAX_TL
             /\ MaxOf({Magnitude(l, rc) : rc \in q \ d})
                  <= MinOf({Magnitude(l, rc) : rc \in d})

\* More than MAX_TL cells of a layer qualify, the cells left out are not the
\* last ones in row order, and a drawn cell is as small as one left out.
C24_Witness ==
  \E l \in 0 .. L - 1 :
    /\ batch # 0
    /\ Cardinality(Qualifying(l)) > MAX_TL
    /\ \E rc \in Qualifying(l) \ DrawnCells(l) : rc[1] < N - 1
    /\ \E rc \in DrawnCells(l) : rc[1] = N - 1

AllCells == (0 .. N - 1) \X (0 .. N - 1)

\* Layer l's threshold slider stands at 0: every cell qualifies, and
\* min(N * N, MAX_TL) edges are drawn in descending order of magnitude.
AtSliderZero(l) ==
  /\ Qualifying(l) = AllCells
  /\ Len(threshLines[l]) = (IF N * N < MAX_TL THEN N * N ELSE MAX_TL)
  /\ \A k \in 1 .. Len(threshLines[l]) - 1 :
       threshLines[l][k].v >= threshLines[l][k + 1].v
  /\ \A k \in 1 .. Len(threshLines[l]) :
       threshLines[l][k].v =
         Magnitude(l, <<threshLines[l][k].r, threshLines[l][k].c>>)

\* Layer l's threshold slider stands at SliderMax (1000): the drawn edges
\* are the cells of the greatest magnitude, each once.
AtSliderMax(l) ==
  LET mx == MaxOf({Magnitude(l, rc) : rc \in AllCells})
  IN  /\ DrawnCells(l) = {rc \in AllCells : Magnitude(l, rc) = mx}
      /\ Cardinality(DrawnCells(l)) = Len(threshLines[l])
      /\ Len(threshLines[l]) >= 1

\* C25: for every (layer, batch, head) matrix, at slider value 0 all cells
\* qualify and min(N * N, 600) edges are drawn in descending order of
\* magnitude; at slider value 1000 exactly the cells of the greatest
\* magnitude are drawn: at least one, and one when the maximum is single.
C25_SliderExtremes ==
  \A l \in 0 .. L - 1 :
    /\ thresh[l] = 0 => AtSliderZero(l)
    /\ thresh[l] = SliderMax => AtSliderMax(l)

\* The slider at 0 draws every cell, up to the cap, in descending order.
C25_SliderZeroDrawsAll ==
  \A l \in 0 .. L - 1 : thresh[l] = 0 => AtSliderZero(l)

\* The hover band is visible on row idx.
HoverOn(idx) ==
  /\ activeRowIdx = idx
  /\ rowBand = [row |-> idx, visibility |-> "visible"]

HoverHidden == activeRowIdx = -1 /\ rowBand.visibility = "hidden"

\* The hover band stands where the element under the pointer puts it.
HoverFollows ==
  IF pointer.kind \in {"nbar", "node"} THEN HoverOn(pointer.idx)
  ELSE HoverHidden

\* C26: no pointer move changes the pinned row, the pinned band or the
\* search text; no pin, unpin, search or clear action changes the row or the
\* visibility of the hover band; a pointer move onto the hit area of row i
\* (a name bar or a node) shows the hover band on row i, and a pointer move
\* onto anything else hides it.
C26_BandsDoNotInterfere ==
  [][/\ pointer' # pointer =>
          /\ <<pinVars, searchValue>>' = <<pinVars, searchValue>>
          /\ HoverFollows'
     /\ pointer' = pointer => <<activeRowIdx, rowBand>>' = <<activeRowIdx, rowBand>>]_vars

\* Pointer moves leave the pin and the search text alone, and the actions
\* of the search bar and the name bars leave the hover band alone.
C26_FrameOnly ==
  [][/\ pointer' # pointer => <<pinVars, searchValue>>' = <<pinVars, searchValue>>
     /\ pointer' = pointer => <<activeRowIdx, rowBand>>' = <<activeRowIdx, rowBand>>]_vars

\* While the pointer is over the svg the hover band follows it.
C26_HoverFollowsInsideSvg ==
  [][(pointer' # pointer /\ pointer'.kind # "outside") => HoverFollows']_vars

\* C27: after any sequence of node clicks and slider events there are as
\* many highlight rectangles as chain elements, highlight k sits at
\* (chain[k].column, chain[k].row), there are max(0, length(chain) - 1)
\* segments, and nothing is drawn beside these highlights and segments.
C27_ArtifactsInStep ==
  /\ Len(hlRects) = Len(chain)
  /\ \A k \in 0 .. Len(chain) - 1 :
       At(hlRects, k) = HighlightAt(At(chain, k).col, At(chain, k).idx)
  /\ Len(segments) = (IF Len(chain) > 0 THEN Len(chain) - 1 ELSE 0)
  /\ hlDrawn = seqBag(hlRects)
  /\ segDrawn = seqBag(segments)
  /\ BagCardinality(hlDrawn) = Len(chain)
  /\ BagCardinality(segDrawn) = Len(segments)

C27_Witness ==
  /\ lastOp = "replace" /\ Len(chain) >= 2
  /\ batch # 0 /\ \E l \in 0 .. L - 1 : head[l] # 0

\* The chain state after a click on the node of chain[pos].
ClickedAt(st, pos) ==
  nodeClick(st, At(st.chain, pos).col, At(st.chain, pos).idx, batch, head)

\* The chain state after two clicks in a row on the node of chain[pos].
DoubleClicked(pos) ==
  nodeClick(ClickedAt(curChain, pos), At(chain, pos).col, At(chain, pos).idx,
            batch, head)

\* C28: two clicks in a row on the node of chain[pos] leave exactly the old
\* elements 0 .. pos: the first click collapses the chain to length pos, the
\* second re-adds the element by Extend, or by Start when pos = 0; the
\* elements after pos are lost, and one click on the node of chain[0] empties
\* the chain.
C28_DoubleClickKeepsPrefix ==
  /\ \A pos \in 0 .. Len(chain) - 1 :
       /\ clickBranch(curChain, At(chain, pos).col, At(chain, pos).idx) = "collapse"
       /\ ClickedAt(curChain, pos).chain = SubSeq(chain, 1, pos)
       /\ clickBranch(ClickedAt(curChain, pos), At(chain, pos).col, At(chain, pos).idx)
            = (IF pos = 0 THEN "start" ELSE "extend")
       /\ DoubleClicked(pos).chain = SubSeq(chain, 1, pos + 1)
       /\ DoubleClicked(pos).hlRects = SubSeq(hlRects, 1, pos + 1)
       /\ DoubleClicked(pos).segments = SubSeq(segments, 1, pos)
       /\ DoubleClicked(pos).hl = seqBag(SubSeq(hlRects, 1, pos + 1))
       /\ DoubleClicked(pos).seg = seqBag(SubSeq(segments, 1, pos))
  /\ Len(chain) > 0 =>
       ClickedAt(curChain, 0) = ChainState(<<>>, <<>>, <<>>, EmptyBag, EmptyBag)

\* A chain over every column, built under moved sliders, whose double click
\* at its second element loses the elements after it.
C28_Witness ==
  /\ Len(chain) = L + 1 /\ L >= 2
  /\ batch # 0
  /\ Len(DoubleClicked(1).chain) = 2
  /\ DoubleClicked(1).chain # chain
  /\ Len(DoubleClicked(0).chain) = 1

\* C29: every id being non-empty after trimming, after any sequence of
\* name-bar clicks, search edits, result selections and clear actions the
\* clear button is shown exactly when the trimmed search text is non-empty,
\* and while a row is pinned the trimmed search text is non-empty.
C29_SearchBoxAndPin ==
  (\A i \in 0 .. N - 1 : trim(ids[i]) # <<>>)
    => /\ clearShown <=> (trim(searchValue) # <<>>)
       /\ pinnedIdx >= 0 => trim(searchValue) # <<>>

\* A row unpinned by a click on its name bar and since pinned again from
\* the result list, after edits of the text.
C29_Witness ==
  /\ \A i \in 0 .. N - 1 : trim(ids[i]) # <<>>
  /\ lastOp = "unpin"
  /\ pinnedIdx >= 0 /\ searchValue = ids[pinnedIdx]
  /\ clearShown /\ ~dropShown /\ focused
====
